---- MODULE Spec2Model ----
(***************************************************************************)
(* A model of the caffeine counter's HTTP API: the session variant         *)
(* (src/server.js, lines 1-716) and the simple variant without             *)
(* authentication (src/unnamed/part_000).                                  *)
(*                                                                         *)
(* Time.  An instant is an integer count of ticks; a local calendar day    *)
(* holds TicksPerDay of them, tick 0 of a day being local midnight.  Days  *)
(* are numbered from 1970-01-01 (day 0) and converted to and from          *)
(* (year, month, day) by the Gregorian rules, months numbered 1..12        *)
(* (JavaScript numbers them 0..11).                                        *)
(*                                                                         *)
(* Amounts of caffeine are integers: the inputs the model draws are        *)
(* integer literals, so the sums of the code's doubles are exact.          *)
(***************************************************************************)
EXTENDS Integers, Sequences, FiniteSets, TLC

VARIABLES
    variant,  \* "session" (src/server.js) or "simple" (src/unnamed/part_000)
    now,      \* the server clock, an instant
    tzEast,   \* TRUE when the server's zone is east of UTC (local midnight is the previous UTC day)
    tzDst,    \* TRUE when the server's zone observes daylight saving time
    client,   \* the page of the session variant: its selection, modals, toast and fetch
    users,    \* the users collection
    session,  \* the session store: session id -> session user or NoUser
    entries,  \* the entries collection
    types,    \* the types collection
    nextId,   \* the next ObjectId the store hands out
    pending,  \* handlers suspended at an await between two store operations
    res       \* the request served by the last step, and its response

vars == <<variant, now, tzEast, tzDst, client, users, session, entries, types, nextId, pending, res>>

----------------------------------------------------------------------------
(* Bounds of the model. *)

TicksPerDay == 2
MaxEntries == 2
MaxTypes == 2
MaxPending == 1

----------------------------------------------------------------------------
(* The calendar behind JavaScript's Date (local time). *)

\* Days from 1970-01-01 to the civil date y-m-d (1 <= m <= 12, 1 <= d).
DayNum(y, m, d) ==
    LET yy  == IF m <= 2 THEN y - 1 ELSE y
        era == yy \div 400
        yoe == yy - era * 400
        mp  == IF m > 2 THEN m - 3 ELSE m + 9
        doy == (153 * mp + 2) \div 5 + d - 1
        doe == yoe * 365 + yoe \div 4 - yoe \div 100 + doy
    IN  era * 146097 + doe - 719468

\* The civil date of day number n, as <<year, month, day>>.
Civil(n) ==
    LET z   == n + 719468
        era == z \div 146097
        doe == z - era * 146097
        yoe == (doe - doe \div 1460 + doe \div 36524 - doe \div 146096) \div 365
        doy == doe - (365 * yoe + yoe \div 4 - yoe \div 100)
        mp  == (5 * doy + 2) \div 153
        d   == doy - (153 * mp + 2) \div 5 + 1
        m   == IF mp < 10 THEN mp + 3 ELSE mp - 9
        y   == yoe + era * 400 + (IF m <= 2 THEN 1 ELSE 0)
    IN  <<y, m, d>>

getFullYear(day) == Civil(day)[1]
getMonth(day) == Civil(day)[2]
getDate(day) == Civil(day)[3]

\* new Date(y, m, d) with JavaScript's overflow rule: a month outside 1..12
\* carries into the year, a day outside the month carries into the months.
MakeDay(y, m, d) ==
    LET m0 == m - 1
        yy == y + (m0 \div 12)
        mm == (m0 % 12) + 1
    IN  DayNum(yy, mm, 1) + d - 1

setDate(day, d) == MakeDay(getFullYear(day), getMonth(day), d)
setMonth(day, m) == MakeDay(getFullYear(day), m, getDate(day))
setFullYear(day, y) == MakeDay(y, getMonth(day), getDate(day))

\* The local day of an instant, and local midnight of a day (setHours(0,0,0,0)).
DayOf(t) == t \div TicksPerDay
Midnight(day) == day * TicksPerDay
At(day, tick) == day * TicksPerDay + tick

----------------------------------------------------------------------------
(* JavaScript values of a JSON request body.  A value is a record          *)
(* [t, n, s]: t is its type tag, n its number (when t = "number"), s its    *)
(* characters (when t = "string"), a string being a sequence of            *)
(* one-character strings.  NaN has its own tag.                            *)

JUndefined == [t |-> "undefined", n |-> 0, s |-> <<>>]
JNull == [t |-> "null", n |-> 0, s |-> <<>>]
JNaN == [t |-> "NaN", n |-> 0, s |-> <<>>]
JNum(n) == [t |-> "number", n |-> n, s |-> <<>>]
JStr(s) == [t |-> "string", n |-> 0, s |-> s]

DecDigits == <<"0", "1", "2", "3", "4", "5", "6", "7", "8", "9">>
HexDigits == DecDigits \o <<"a", "b", "c", "d", "e", "f">>

IsDigitOf(c, digits) == \E i \in DOMAIN digits : digits[i] = c
DigitValue(c, digits) == (CHOOSE i \in DOMAIN digits : digits[i] = c) - 1

\* String.prototype.trim, on a sequence of characters.
RECURSIVE TrimStart(_)
TrimStart(s) ==
    IF s # <<>> /\ Head(s) = " " THEN TrimStart(Tail(s)) ELSE s

RECURSIVE TrimEnd(_)
TrimEnd(s) ==
    IF s # <<>> /\ s[Len(s)] = " " THEN TrimEnd(SubSeq(s, 1, Len(s) - 1)) ELSE s

Trim(s) == TrimEnd(TrimStart(s))

\* The value of a non-empty run of digits in the given base.
RECURSIVE DigitsValue(_, _)
DigitsValue(s, digits) ==
    IF s = <<>> THEN 0
    ELSE DigitsValue(SubSeq(s, 1, Len(s) - 1), digits) * Len(digits)
         + DigitValue(s[Len(s)], digits)

AllDigits(s, digits) == s # <<>> /\ \A i \in DOMAIN s : IsDigitOf(s[i], digits)

\* The longest prefix of s made of decimal digits.
RECURSIVE DigitPrefix(_)
DigitPrefix(s) ==
    IF s # <<>> /\ IsDigitOf(Head(s), DecDigits)
    THEN <<Head(s)>> \o DigitPrefix(Tail(s))
    ELSE <<>>

\* Number(string), as the comparison  caffeineMg <= 0  converts a string:
\* the whole trimmed string must be a numeric literal (empty: 0; 0x..: hex;
\* signed decimal), anything else is NaN.  Integer literals only.
StringToNumber(s) ==
    LET t == Trim(s)
        body == IF t # <<>> /\ Head(t) \in {"-", "+"} THEN Tail(t) ELSE t
        sign == IF t # <<>> /\ Head(t) = "-" THEN -1 ELSE 1
    IN  IF t = <<>> THEN JNum(0)
        ELSE IF Len(t) > 2 /\ t[1] = "0" /\ t[2] = "x"
                /\ AllDigits(SubSeq(t, 3, Len(t)), HexDigits)
        THEN JNum(DigitsValue(SubSeq(t, 3, Len(t)), HexDigits))
        ELSE IF AllDigits(body, DecDigits)
        THEN JNum(sign * DigitsValue(body, DecDigits))
        ELSE JNaN

\* ToNumber of any value.
ToNumber(v) ==
    CASE v.t = "number" -> v
      [] v.t = "string" -> StringToNumber(v.s)
      [] v.t = "null" -> JNum(0)
      [] OTHER -> JNaN

\* !v is false: the value is truthy.
Truthy(v) ==
    CASE v.t = "number" -> v.n # 0
      [] v.t = "string" -> v.s # <<>>
      [] OTHER -> FALSE

\* v <= 0 (false whenever v converts to NaN).
LeqZero(v) ==
    LET x == ToNumber(v)
    IN  x.t = "number" /\ x.n <= 0

\* parseFloat(v): the longest numeric prefix of the string, after leading
\* white space and an optional sign; NaN when there is none.
parseFloat(v) ==
    LET t == TrimStart(v.s)
        body == IF t # <<>> /\ Head(t) \in {"-", "+"} THEN Tail(t) ELSE t
        sign == IF t # <<>> /\ Head(t) = "-" THEN -1 ELSE 1
        pre == DigitPrefix(body)
    IN  CASE v.t = "number" -> v
          [] v.t = "string" /\ pre # <<>> -> JNum(sign * DigitsValue(pre, DecDigits))
          [] OTHER -> JNaN

----------------------------------------------------------------------------
(* The chart bucketer of GET /api/caffeine-chart. *)

RECURSIVE SumMg(_)
SumMg(S) ==
    IF S = {} THEN 0
    ELSE LET e == CHOOSE x \in S : TRUE
         IN  e.caffeineMg + SumMg(S \ {e})

\* CaffeineEntry.findOne().sort({timestamp: 1}) and .sort({timestamp: -1}).
EarliestEntry(E) == CHOOSE e \in E : \A f \in E : e.timestamp <= f.timestamp
LatestEntry(E) == CHOOSE e \in E : \A f \in E : e.timestamp >= f.timestamp

\* startDate of period "week": today minus 6 days.
\* (a variant that goes back 7 days)
WeekStartSevenBack(today) == setDate(today, getDate(today) - 7)
WeekStart(today) == setDate(today, getDate(today) - 6)

\* startDate of period "month": today minus 29 days.
MonthStart(today) == setDate(today, getDate(today) - 29)

\* startDate of period "year": the same month and day one year earlier.
YearStart(today) == setFullYear(today, getFullYear(today) - 1)

\* Daylight saving time, by the rule of the United States: the clocks are one
\* hour ahead from 2 a.m. of the second Sunday of March to 2 a.m. of the first
\* Sunday of November, so local midnight is in daylight time after the one
\* day through the other.  Day 0, 1970-01-01, is a Thursday.
WeekDay(day) == (day + 4) % 7
SundayFrom(day) == day + ((7 - WeekDay(day)) % 7)
MidnightInDst(day) ==
    /\ SundayFrom(DayNum(getFullYear(day), 3, 8)) < day
    /\ day <= SundayFrom(DayNum(getFullYear(day), 11, 1))

\* endDate - startDate, in hours: the local midnights of two days are a
\* multiple of 24 hours apart, less the hour the clocks went ahead between
\* them, plus the hour they went back.
HoursBetween(startDay, endDay, dst) ==
    LET ahead(day) == IF dst /\ MidnightInDst(day) THEN 1 ELSE 0
    IN  (endDay - startDay) * 24 - (ahead(endDay) - ahead(startDay))

\* daysSpan of period "all": Math.floor((endDate - startDate) / day) + 1.
DaysSpan(E, dst) ==
    HoursBetween(DayOf(EarliestEntry(E).timestamp), DayOf(LatestEntry(E).timestamp), dst)
        \div 24 + 1

\* The switch on the period: the first day of the axis, the step and the
\* label format.  kind is "range", "empty" (period "all", no entry) or
\* "invalid" (any other period).
\* (First a variant whose period "all" does not return early on an empty store
\* and charts today alone.)
ChartRangeWithoutEarlyReturn(period, today, E, dst) ==
    LET first == DayOf(EarliestEntry(E).timestamp)
        rng(start, step, fmt) ==
            [kind |-> "range", startDay |-> start, step |-> step, fmt |-> fmt]
        none(kind) == [kind |-> kind, startDay |-> 0, step |-> "", fmt |-> ""]
    IN  CASE period = "week" -> rng(WeekStart(today), "day", "month day")
          [] period = "month" -> rng(MonthStart(today), "day", "month day")
          [] period = "year" -> rng(YearStart(today), "month", "month")
          [] period = "all" ->
                IF E = {} THEN rng(today, "day", "month day")
                ELSE IF DaysSpan(E, dst) <= 90 THEN rng(first, "day", "month day")
                ELSE IF DaysSpan(E, dst) <= 18 * 30
                THEN rng(setDate(first, 1), "month", "month year")
                ELSE rng(MakeDay(getFullYear(first), 1, 1), "year", "year")
          [] OTHER -> none("invalid")
ChartRange(period, today, E, dst) ==
    LET first == DayOf(EarliestEntry(E).timestamp)
        rng(start, step, fmt) ==
            [kind |-> "range", startDay |-> start, step |-> step, fmt |-> fmt]
        none(kind) == [kind |-> kind, startDay |-> 0, step |-> "", fmt |-> ""]
    IN  CASE period = "week" -> rng(WeekStart(today), "day", "month day")
          [] period = "month" -> rng(MonthStart(today), "day", "month day")
          [] period = "year" -> rng(YearStart(today), "month", "month")
          [] period = "all" ->
                IF E = {} THEN none("empty")
                ELSE IF DaysSpan(E, dst) <= 90 THEN rng(first, "day", "month day")
                ELSE IF DaysSpan(E, dst) <= 18 * 30
                THEN rng(setDate(first, 1), "month", "month year")
                ELSE rng(MakeDay(getFullYear(first), 1, 1), "year", "year")
          [] OTHER -> none("invalid")

\* labelFormatter(d): the fields of the date the label shows, in order.
labelFormatter(fmt, day) ==
    CASE fmt = "month day" -> <<getMonth(day), getDate(day)>>
      [] fmt = "month" -> <<getMonth(day)>>
      [] fmt = "month year" -> <<getMonth(day), getFullYear(day)>>
      [] fmt = "year" -> <<getFullYear(day)>>

\* d.toISOString().slice(0, 10) of local midnight of a day: the UTC date,
\* which east of UTC is the day before.
IsoDate(day, east) == Civil(IF east THEN day - 1 ELSE day)

\* The bucket key of a Date whose local day is `day`.
BucketKey(step, day, east) ==
    CASE step = "day" -> IsoDate(day, east)
      [] step = "month" -> <<getFullYear(day), getMonth(day)>>
      [] step = "year" -> <<getFullYear(day)>>

\* CaffeineEntry.find({timestamp: {$gte: startDate, $lte: now}}).
\* (a variant with $gt in place of $gte)
SelectedAfterStart(E, startDay, nowT) ==
    {e \in E : e.timestamp > Midnight(startDay) /\ e.timestamp <= nowT}
Selected(E, startDay, nowT) ==
    {e \in E : e.timestamp >= Midnight(startDay) /\ e.timestamp <= nowT}

\* The buckets object after the forEach: key -> accumulated caffeineMg.
Buckets(sel, step, east) ==
    LET key(e) == BucketKey(step, DayOf(e.timestamp), east)
    IN  [k \in {key(e) : e \in sel} |-> SumMg({e \in sel : key(e) = k})]

\* The dates the monthly and the yearly loop visit, from iter while iter <= today.
RECURSIVE MonthWalk(_, _)
MonthWalk(iter, today) ==
    IF iter <= today
    THEN <<iter>> \o MonthWalk(setMonth(iter, getMonth(iter) + 1), today)
    ELSE <<>>

RECURSIVE YearWalk(_, _)
YearWalk(iter, today) ==
    IF iter <= today
    THEN <<iter>> \o YearWalk(setFullYear(iter, getFullYear(iter) + 1), today)
    ELSE <<>>

\* The dates the axis loop visits.  The daily loop adds one calendar day per
\* iteration while d <= today, which is the sequence startDay, ..., today.
\* (First a variant whose daily loop runs while d < today.)
AxisBeforeToday(step, startDay, today) ==
    CASE step = "day" -> [i \in 1..(today - startDay) |-> startDay + i - 1]
      [] step = "month" -> MonthWalk(startDay, today)
      [] step = "year" -> YearWalk(startDay, today)
Axis(step, startDay, today) ==
    CASE step = "day" -> [i \in 1..(today - startDay + 1) |-> startDay + i - 1]
      [] step = "month" -> MonthWalk(startDay, today)
      [] step = "year" -> YearWalk(startDay, today)

\* The handler's result for a valid period with a range: labels and values,
\* with the dates visited, the first day and the step kept beside them.
Chart(range, today, nowT, E, east) ==
    LET sel == Selected(E, range.startDay, nowT)
        buckets == Buckets(sel, range.step, east)
        axis == Axis(range.step, range.startDay, today)
        value(day) ==
            LET key == BucketKey(range.step, day, east)
            IN  IF key \in DOMAIN buckets THEN buckets[key] ELSE 0
    IN  [labels |-> [i \in DOMAIN axis |-> labelFormatter(range.fmt, axis[i])],
         values |-> [i \in DOMAIN axis |-> value(axis[i])],
         axis |-> axis,
         startDay |-> range.startDay,
         step |-> range.step]

----------------------------------------------------------------------------
(* Clients, identities and documents. *)

SessionIds == {"s1", "s2", "s3"}
GoogleIds == {"g1", "g2"}

\* What the identity provider's ticket says of a Google account.
Payload(g) ==
    [sub |-> g,
     email |-> IF g = "g1" THEN "ann@mail" ELSE "bob@mail",
     name |-> IF g = "g1" THEN "Ann" ELSE "Bob",
     picture |-> IF g = "g1" THEN "ann.png" ELSE "bob.png"]

\* req.session.user, and its absence.
NoUser == [googleId |-> "", email |-> "", name |-> "", picture |-> ""]
SessionUser(u) ==
    [googleId |-> u.googleId, email |-> u.email, name |-> u.name, picture |-> u.picture]

NoDoc == [id |-> 0]
Idle == [kind |-> "idle", sess |-> "", user |-> NoUser, id |-> 0, doc |-> NoDoc]

\* The request served by the last step and its response; status 0 while the
\* handler is suspended at an await and has not answered yet.
\* The simple variant has no session middleware, so no session id either.
Res(route, status, s, user, more) ==
    [route |-> route, status |-> status,
     sess |-> IF variant = "session" THEN s ELSE "",
     user |-> user.googleId] @@ more
NoRes == Res("", 0, "", NoUser, [handled |-> FALSE])

\* requireAuth lets the request through: the simple variant has no such
\* middleware, the session variant needs req.session.user.
\* (First a variant that lets every request through.)
requireAuthOpen(s) == TRUE
requireAuth(s) == variant = "simple" \/ session[s].googleId # ""

\* The model holds suspended handlers in numbered slots: a handler that
\* suspends takes the first free one, and none suspends when all are taken.
Slots == DOMAIN pending
HasFreeSlot == \E i \in Slots : pending[i].kind = "idle"
FreeSlot == CHOOSE i \in Slots : pending[i].kind = "idle" /\ \A j \in 1..(i - 1) : pending[j].kind # "idle"
Suspend(kind, s, id, doc) ==
    pending' = [pending EXCEPT ![FreeSlot] =
                   [kind |-> kind, sess |-> IF variant = "session" THEN s ELSE "",
                    user |-> session[s], id |-> id, doc |-> doc]]
Resume(i) == pending' = [pending EXCEPT ![i] = Idle]

----------------------------------------------------------------------------
(* The clock. *)

AdvanceClock(t) ==
    /\ t > now
    /\ now' = t
    /\ res' = NoRes
    /\ UNCHANGED <<variant, tzEast, tzDst, client, users, session, entries, types, nextId, pending>>

\* The clock is the wall clock, which can be set forth and back.
SetClock(t) ==
    /\ t # now
    /\ now' = t
    /\ res' = NoRes
    /\ UNCHANGED <<variant, tzEast, tzDst, client, users, session, entries, types, nextId, pending>>

----------------------------------------------------------------------------
(* Authentication (session variant). *)

\* A request to a protected route without a session user: requireAuth answers 401.
Unauthenticated(s, route) ==
    /\ ~requireAuth(s)
    /\ res' = Res(route, 401, s, NoUser, [handled |-> FALSE, error |-> "Authentication required"])
    /\ UNCHANGED <<variant, now, tzEast, tzDst, client, users, session, entries, types, nextId, pending>>

\* POST /api/auth/google with a token the provider rejects.
LoginInvalid(s) ==
    /\ variant = "session"
    /\ res' = Res("POST /api/auth/google", 400, s, session[s], [handled |-> TRUE, error |-> "Invalid token"])
    /\ UNCHANGED <<variant, now, tzEast, tzDst, client, users, session, entries, types, nextId, pending>>

\* POST /api/auth/google, up to User.findOne({googleId}).
LoginFind(s, g) ==
    /\ variant = "session"
    /\ HasFreeSlot
    /\ LET found == {u \in users : u.googleId = g}
       IN  Suspend("login", s, 0,
                   IF found = {} THEN [id |-> 0, googleId |-> g]
                   ELSE [id |-> 1, googleId |-> g])
    /\ res' = Res("POST /api/auth/google", 0, s, session[s], [handled |-> TRUE])
    /\ UNCHANGED <<variant, now, tzEast, tzDst, client, users, session, entries, types, nextId>>

\* POST /api/auth/google, from user.save() on: a new User is inserted (the
\* unique index on googleId rejects a second one), a known one is updated;
\* then the session user is set.
LoginSave(i) ==
    /\ pending[i].kind = "login"
    /\ LET p == pending[i]
           g == p.doc.googleId
           pay == Payload(g)
           fresh == [googleId |-> g, email |-> pay.email, name |-> pay.name,
                     picture |-> pay.picture, lastLoginAt |-> now]
           known == CHOOSE u \in users : u.googleId = g
           saved == IF p.doc.id = 0 THEN fresh
                    ELSE [known EXCEPT !.picture = pay.picture, !.lastLoginAt = now]
           clash == p.doc.id = 0 /\ \E u \in users : u.googleId = g
       IN  IF clash
           THEN /\ res' = Res("POST /api/auth/google", 400, p.sess, p.user,
                              [handled |-> TRUE, error |-> "Invalid token"])
                /\ UNCHANGED <<users, session>>
           ELSE /\ users' = {u \in users : u.googleId # g} \cup {saved}
                /\ session' = [session EXCEPT ![p.sess] = SessionUser(saved)]
                /\ res' = Res("POST /api/auth/google", 200, p.sess, p.user,
                              [handled |-> TRUE, body |-> SessionUser(saved)])
    /\ Resume(i)
    /\ UNCHANGED <<variant, now, tzEast, tzDst, client, entries, types, nextId>>

\* POST /api/auth/logout: the session is destroyed.
\* (First a variant that answers and keeps the session.)
LogoutKeepsSession(s) ==
    /\ variant = "session"
    /\ res' = Res("POST /api/auth/logout", 200, s, session[s], [handled |-> TRUE])
    /\ UNCHANGED <<variant, now, tzEast, tzDst, client, users, session, entries, types, nextId, pending>>
Logout(s) ==
    /\ variant = "session"
    /\ session' = [session EXCEPT ![s] = NoUser]
    /\ res' = Res("POST /api/auth/logout", 200, s, session[s], [handled |-> TRUE])
    /\ UNCHANGED <<variant, now, tzEast, tzDst, client, users, entries, types, nextId, pending>>

----------------------------------------------------------------------------
(* Entries. *)

\* The body of POST /api/entries.  drinkName, sizeName and caffeineMg are
\* JavaScript values.  userId (a googleId, "" for none) and timestamp (an
\* instant, -1 for none) are not fields the handler reads; a client may send
\* them all the same.
EntryBody(drinkName, sizeName, caffeineMg, userId, timestamp) ==
    [drinkName |-> drinkName, sizeName |-> sizeName, caffeineMg |-> caffeineMg,
     userId |-> userId, timestamp |-> timestamp]

\* if (!drinkName || !sizeName || !caffeineMg || caffeineMg <= 0)
\* (first a variant without the last test)
EntryRejectedUnlessPresent(b) ==
    \/ ~Truthy(b.drinkName)
    \/ ~Truthy(b.sizeName)
    \/ ~Truthy(b.caffeineMg)
EntryRejected(b) ==
    \/ ~Truthy(b.drinkName)
    \/ ~Truthy(b.sizeName)
    \/ ~Truthy(b.caffeineMg)
    \/ LeqZero(b.caffeineMg)

\* drinkName.trim() and sizeName.trim() throw a TypeError on a value that is
\* no string.
EntryThrows(b) == b.drinkName.t # "string" \/ b.sizeName.t # "string"

\* new CaffeineEntry({...}): the document the handler builds.  The user fields
\* come from the session (the simple variant has none), the timestamp from the
\* schema's default, Date.now.  (First a variant that spreads the body's
\* userId into the document.)
NewEntryFromBody(b, user) ==
    [id |-> nextId.entries,
     drinkName |-> Trim(b.drinkName.s),
     sizeName |-> Trim(b.sizeName.s),
     fullName |-> Trim(b.sizeName.s \o <<" ">> \o b.drinkName.s),
     caffeineMg |-> parseFloat(b.caffeineMg),
     timestamp |-> now,
     userId |-> IF b.userId # "" THEN b.userId ELSE user.googleId,
     userName |-> user.name,
     userAvatar |-> user.picture]
NewEntry(b, user) ==
    [id |-> nextId.entries,
     drinkName |-> Trim(b.drinkName.s),
     sizeName |-> Trim(b.sizeName.s),
     fullName |-> Trim(b.sizeName.s \o <<" ">> \o b.drinkName.s),
     caffeineMg |-> parseFloat(b.caffeineMg),
     timestamp |-> now,
     userId |-> user.googleId,
     userName |-> user.name,
     userAvatar |-> user.picture]

\* The validation save() runs against caffeineEntrySchema: required strings
\* are non-empty after the trim setter, caffeineMg casts to a number
\* (NaN does not) that is at least min: 0, and the session variant requires
\* userId and userName.
EntrySchemaValid(d) ==
    /\ d.drinkName # <<>>
    /\ d.sizeName # <<>>
    /\ d.fullName # <<>>
    /\ d.caffeineMg.t = "number"
    /\ d.caffeineMg.n >= 0
    /\ variant = "session" => d.userId # "" /\ d.userName # ""

\* POST /api/entries.
PostEntries(s, b) ==
    /\ requireAuth(s)
    /\ LET user == IF variant = "session" THEN session[s] ELSE NoUser
           answer(status, error, doc) ==
               res' = Res("POST /api/entries", status, s, user,
                          [handled |-> TRUE, req |-> b, error |-> error, doc |-> doc])
           built == NewEntry(b, user)
           saved == [built EXCEPT !.caffeineMg = built.caffeineMg.n]
       IN  IF EntryRejected(b)
           THEN /\ answer(400, "Drink name, size name, and positive caffeine amount are required", NoDoc)
                /\ UNCHANGED <<entries, nextId>>
           ELSE IF EntryThrows(b) \/ ~EntrySchemaValid(built)
           THEN /\ answer(500, "Failed to save entry", NoDoc)
                /\ UNCHANGED <<entries, nextId>>
           ELSE /\ nextId.entries <= MaxEntries
                /\ entries' = entries \cup {saved}
                /\ nextId' = [nextId EXCEPT !.entries = @ + 1]
                /\ answer(201, "", saved)
    /\ UNCHANGED <<variant, now, tzEast, tzDst, client, users, session, types, pending>>

\* entry.userId !== req.session.user.googleId
\* (first a variant without the test)
NotOwnerUnchecked(entry, user) == FALSE
NotOwner(entry, user) == entry.userId # user.googleId

\* DELETE /api/entries/:id of the session variant, up to
\* CaffeineEntry.findById(id) and the answers that follow it without another
\* store operation.
DeleteEntryFind(s, id) ==
    /\ variant = "session"
    /\ requireAuth(s)
    /\ LET found == {e \in entries : e.id = id}
           entry == CHOOSE e \in found : TRUE
           answer(status, error) ==
               res' = Res("DELETE /api/entries/:id", status, s, session[s],
                          [handled |-> TRUE, id |-> id, error |-> error])
       IN  IF found = {}
           THEN answer(404, "Entry not found") /\ UNCHANGED pending
           ELSE IF NotOwner(entry, session[s])
           THEN answer(403, "Not authorized to delete this entry") /\ UNCHANGED pending
           ELSE /\ HasFreeSlot
                /\ Suspend("deleteEntry", s, id, NoDoc)
                /\ answer(0, "")
    /\ UNCHANGED <<variant, now, tzEast, tzDst, client, users, session, entries, types, nextId>>

\* DELETE /api/entries/:id of the session variant, from
\* CaffeineEntry.findByIdAndDelete(id) on.
\* (First a variant that keeps the document and zeroes its amount.)
DeleteEntryRemoveKeepingDocument(i) ==
    /\ pending[i].kind = "deleteEntry"
    /\ entries' = {IF e.id = pending[i].id THEN [e EXCEPT !.caffeineMg = 0] ELSE e : e \in entries}
    /\ res' = Res("DELETE /api/entries/:id", 200, pending[i].sess, pending[i].user,
                  [handled |-> TRUE, id |-> pending[i].id, error |-> ""])
    /\ Resume(i)
    /\ UNCHANGED <<variant, now, tzEast, tzDst, client, users, session, types, nextId>>
DeleteEntryRemove(i) ==
    /\ pending[i].kind = "deleteEntry"
    /\ entries' = {e \in entries : e.id # pending[i].id}
    /\ res' = Res("DELETE /api/entries/:id", 200, pending[i].sess, pending[i].user,
                  [handled |-> TRUE, id |-> pending[i].id, error |-> ""])
    /\ Resume(i)
    /\ UNCHANGED <<variant, now, tzEast, tzDst, client, users, session, types, nextId>>

\* DELETE /api/entries/:id of the simple variant: one findByIdAndDelete.
SimpleDeleteEntry(s, id) ==
    /\ variant = "simple"
    /\ entries' = {e \in entries : e.id # id}
    /\ res' = Res("DELETE /api/entries/:id",
                  IF \E e \in entries : e.id = id THEN 200 ELSE 404, s, NoUser,
                  [handled |-> TRUE, id |-> id,
                   error |-> IF \E e \in entries : e.id = id THEN "" ELSE "Entry not found"])
    /\ UNCHANGED <<variant, now, tzEast, tzDst, client, users, session, types, nextId, pending>>

----------------------------------------------------------------------------
(* Drink types. *)

\* The body of POST /api/types: name is a JavaScript value, sizes is absent
\* or an array whose items are objects {name, caffeineMg} or null.
JArray(items) == [t |-> "array", items |-> items]
NoArray == [t |-> "undefined", items |-> <<>>]
SizeObject(name, caffeineMg) == [t |-> "object", name |-> name, caffeineMg |-> caffeineMg]
SizeNull == [t |-> "null", name |-> JUndefined, caffeineMg |-> JUndefined]
TypeBody(name, sizes) == [name |-> name, sizes |-> sizes]

\* if (!name || !sizes || !Array.isArray(sizes) || sizes.length === 0)
TypeRejected(b) ==
    \/ ~Truthy(b.name)
    \/ b.sizes.t # "array"
    \/ b.sizes.items = <<>>

\* One turn of the loop over sizes: reading size.name of null throws, else
\* if (!size.name || !size.caffeineMg || size.caffeineMg <= 0) rejects.
SizeOutcome(size) ==
    IF size.t = "null" THEN "throw"
    ELSE IF ~Truthy(size.name) \/ ~Truthy(size.caffeineMg) \/ LeqZero(size.caffeineMg)
    THEN "reject"
    ELSE "pass"

\* The loop over sizes ends at the first size that throws or is rejected.
RECURSIVE SizesOutcome(_)
SizesOutcome(items) ==
    IF items = <<>> THEN "pass"
    ELSE IF SizeOutcome(Head(items)) # "pass" THEN SizeOutcome(Head(items))
    ELSE SizesOutcome(Tail(items))

\* DrinkType.findOne({ name: name.trim() })
ExistingType(name) == {d \in types : d.name = Trim(name.s)}

\* new DrinkType({...}): size.name.trim() throws on a name that is no string.
NewTypeThrows(b) == \E i \in DOMAIN b.sizes.items : b.sizes.items[i].name.t # "string"
NewType(b) ==
    [id |-> nextId.types,
     name |-> Trim(b.name.s),
     sizes |-> [i \in DOMAIN b.sizes.items |->
                   [name |-> Trim(b.sizes.items[i].name.s),
                    caffeineMg |-> parseFloat(b.sizes.items[i].caffeineMg)]],
     deleted |-> FALSE]

\* The validation save() runs against drinkTypeSchema and sizeVariantSchema.
TypeSchemaValid(d) ==
    /\ d.name # <<>>
    /\ \A i \in DOMAIN d.sizes :
          /\ d.sizes[i].name # <<>>
          /\ d.sizes[i].caffeineMg.t = "number"
          /\ d.sizes[i].caffeineMg.n >= 0

\* POST /api/types, up to DrinkType.findOne and the answers that follow it
\* without another store operation.
PostTypesFind(s, b) ==
    /\ requireAuth(s)
    /\ LET answer(status, error) ==
               res' = Res("POST /api/types", status, s, session[s],
                          [handled |-> TRUE, step |-> "findOne", req |-> b, error |-> error])
       IN  IF TypeRejected(b)
           THEN answer(400, "Name and at least one size variant are required") /\ UNCHANGED pending
           ELSE IF SizesOutcome(b.sizes.items) = "throw"
           THEN answer(500, "Failed to save drink type") /\ UNCHANGED pending
           ELSE IF SizesOutcome(b.sizes.items) = "reject"
           THEN answer(400, "Each size must have a name and positive caffeine amount") /\ UNCHANGED pending
           ELSE IF b.name.t # "string"
           THEN answer(500, "Failed to save drink type") /\ UNCHANGED pending
           ELSE IF ExistingType(b.name) # {}
           THEN answer(400, "Drink type already exists") /\ UNCHANGED pending
           ELSE /\ HasFreeSlot
                /\ Suspend("postTypes", s, 0, b)
                /\ answer(0, "")
    /\ UNCHANGED <<variant, now, tzEast, tzDst, client, users, session, entries, types, nextId>>

\* POST /api/types, from new DrinkType({...}) and newType.save() on.
PostTypesSave(i) ==
    /\ pending[i].kind = "postTypes"
    /\ LET p == pending[i]
           built == NewType(p.doc)
           saved == [built EXCEPT !.sizes = [k \in DOMAIN built.sizes |->
                        [name |-> built.sizes[k].name, caffeineMg |-> built.sizes[k].caffeineMg.n]]]
           answer(status, error, doc) ==
               res' = Res("POST /api/types", status, p.sess, p.user,
                          [handled |-> TRUE, step |-> "save", req |-> p.doc, error |-> error, doc |-> doc])
       IN  IF NewTypeThrows(p.doc) \/ ~TypeSchemaValid(built)
           THEN /\ answer(500, "Failed to save drink type", NoDoc)
                /\ UNCHANGED <<types, nextId>>
           ELSE /\ nextId.types <= MaxTypes
                /\ types' = types \cup {saved}
                /\ nextId' = [nextId EXCEPT !.types = @ + 1]
                /\ answer(201, "", saved)
    /\ Resume(i)
    /\ UNCHANGED <<variant, now, tzEast, tzDst, client, users, session, entries>>

\* DELETE /api/types/:id of the session variant, up to DrinkType.findById(id).
DeleteTypeFind(s, id) ==
    /\ variant = "session"
    /\ requireAuth(s)
    /\ LET found == {d \in types : d.id = id}
           drink == CHOOSE d \in found : TRUE
           answer(status, error) ==
               res' = Res("DELETE /api/types/:id", status, s, session[s],
                          [handled |-> TRUE, id |-> id, error |-> error])
       IN  IF found = {}
           THEN answer(404, "Drink type not found") /\ UNCHANGED pending
           ELSE IF drink.deleted
           THEN answer(400, "Drink type already deleted") /\ UNCHANGED pending
           ELSE /\ HasFreeSlot
                /\ Suspend("deleteType", s, id, NoDoc)
                /\ answer(0, "")
    /\ UNCHANGED <<variant, now, tzEast, tzDst, client, users, session, entries, types, nextId>>

\* DELETE /api/types/:id of the session variant: drink.deleted = true and
\* drink.save().
DeleteTypeSave(i) ==
    /\ pending[i].kind = "deleteType"
    /\ types' = {IF d.id = pending[i].id THEN [d EXCEPT !.deleted = TRUE] ELSE d : d \in types}
    /\ res' = Res("DELETE /api/types/:id", 200, pending[i].sess, pending[i].user,
                  [handled |-> TRUE, id |-> pending[i].id, error |-> ""])
    /\ Resume(i)
    /\ UNCHANGED <<variant, now, tzEast, tzDst, client, users, session, entries, nextId>>

\* DELETE /api/types/:id of the simple variant: one findByIdAndDelete.
SimpleDeleteType(s, id) ==
    /\ variant = "simple"
    /\ types' = {d \in types : d.id # id}
    /\ res' = Res("DELETE /api/types/:id",
                  IF \E d \in types : d.id = id THEN 200 ELSE 404, s, NoUser,
                  [handled |-> TRUE, id |-> id,
                   error |-> IF \E d \in types : d.id = id THEN "" ELSE "Drink type not found"])
    /\ UNCHANGED <<variant, now, tzEast, tzDst, client, users, session, entries, nextId, pending>>

----------------------------------------------------------------------------
(* The chart route. *)

\* const { period = "week" } = req.query
NoParam == "(absent)"
PeriodOf(q) == IF q = NoParam THEN "week" ELSE q

\* GET /api/caffeine-chart (session variant only).
GetChart(s, q) ==
    /\ variant = "session"
    /\ requireAuth(s)
    /\ LET today == DayOf(now)
           range == ChartRange(PeriodOf(q), today, entries, tzDst)
           answer(status, more) ==
               res' = Res("GET /api/caffeine-chart", status, s, session[s],
                          [handled |-> TRUE, query |-> q, kind |-> range.kind] @@ more)
       IN  CASE range.kind = "invalid" -> answer(400, [error |-> "Invalid period"])
             [] range.kind = "empty" ->
                   answer(200, [labels |-> <<>>, values |-> <<>>, axis |-> <<>>,
                                startDay |-> 0, step |-> ""])
             [] range.kind = "range" ->
                   answer(200, Chart(range, today, now, entries, tzEast))
    /\ UNCHANGED <<variant, now, tzEast, tzDst, client, users, session, entries, types, nextId, pending>>

----------------------------------------------------------------------------
(* The leaderboard route (session variant, in its current and its older    *)
(* version, which has no period "year").                                   *)

\* The tick of the day of an instant: a Date keeps its time of day when its
\* day, month or year is set.
TickOf(t) == t % TicksPerDay

\* weekAgo.setDate(weekAgo.getDate() - 7)
WeekAgo(t) == At(setDate(DayOf(t), getDate(DayOf(t)) - 7), TickOf(t))

\* monthAgo.setMonth(monthAgo.getMonth() - 1)
MonthAgo(t) == At(setMonth(DayOf(t), getMonth(DayOf(t)) - 1), TickOf(t))

\* yearAgo.setFullYear(yearAgo.getFullYear() - 1)
YearAgo(t) == At(setFullYear(DayOf(t), getFullYear(DayOf(t)) - 1), TickOf(t))

\* The switch on the period: the date filter.  kind is "since" (timestamp
\* $gte since), "none" (no filter) or "invalid".
\* (First a variant that takes every other period for "all".)
DateFilterLenient(version, period, nowT) ==
    LET since(t) == [kind |-> "since", since |-> t]
    IN  CASE period = "week" -> since(WeekAgo(nowT))
          [] period = "month" -> since(MonthAgo(nowT))
          [] period = "year" /\ version = "current" -> since(YearAgo(nowT))
          [] OTHER -> [kind |-> "none", since |-> 0]
DateFilter(version, period, nowT) ==
    LET since(t) == [kind |-> "since", since |-> t]
    IN  CASE period = "week" -> since(WeekAgo(nowT))
          [] period = "month" -> since(MonthAgo(nowT))
          [] period = "year" /\ version = "current" -> since(YearAgo(nowT))
          [] period = "all" -> [kind |-> "none", since |-> 0]
          [] OTHER -> [kind |-> "invalid", since |-> 0]

\* { $match: dateFilter }
Matched(E, filter) == {e \in E : filter.kind = "none" \/ e.timestamp >= filter.since}

\* { $group: { _id: "$userId", ... } }: one row per userId, with the sum and
\* the count of its entries and the name and avatar of the first of them (the
\* one stored first).
GroupByUser(M) ==
    {LET mine == {e \in M : e.userId = u}
         first == CHOOSE e \in mine : \A f \in mine : e.id <= f.id
     IN  [userId |-> u,
          totalCaffeine |-> SumMg(mine),
          entryCount |-> Cardinality(mine),
          userName |-> first.userName,
          userAvatar |-> first.userAvatar,
          firstId |-> first.id] : u \in {e.userId : e \in M}}

\* { $sort: { totalCaffeine: -1 } }: by total, descending.  The order of rows
\* with equal totals is not determined by the pipeline: they come in the
\* order of their first entries or in the reverse order (tieUp).
\* (First a variant that sorts ascending.)
SortedByTotalAscending(R, tieUp) ==
    LET before(a, b) ==
            \/ a.totalCaffeine < b.totalCaffeine
            \/ a.totalCaffeine = b.totalCaffeine /\ a.firstId # b.firstId
               /\ (tieUp <=> a.firstId < b.firstId)
        place(r) == 1 + Cardinality({q \in R : before(q, r)})
        placed == {<<place(r), r>> : r \in R}
    IN  [i \in 1..Cardinality(R) |-> (CHOOSE p \in placed : p[1] = i)[2]]
SortedByTotal(R, tieUp) ==
    LET before(a, b) ==
            \/ a.totalCaffeine > b.totalCaffeine
            \/ a.totalCaffeine = b.totalCaffeine /\ a.firstId # b.firstId
               /\ (tieUp <=> a.firstId < b.firstId)
        place(r) == 1 + Cardinality({q \in R : before(q, r)})
        placed == {<<place(r), r>> : r \in R}
    IN  [i \in 1..Cardinality(R) |-> (CHOOSE p \in placed : p[1] = i)[2]]

\* { $limit: 50 }
LeaderboardLimit == 50
Limited(rows) ==
    SubSeq(rows, 1, IF Len(rows) < LeaderboardLimit THEN Len(rows) ELSE LeaderboardLimit)

\* { $project: { _id: 0, userId: "$_id", ... } }
Projected(rows) ==
    [i \in DOMAIN rows |->
        [userId |-> rows[i].userId,
         totalCaffeine |-> rows[i].totalCaffeine,
         entryCount |-> rows[i].entryCount,
         userName |-> rows[i].userName,
         userAvatar |-> rows[i].userAvatar]]

\* CaffeineEntry.aggregate(pipeline)
Leaderboard(E, filter, tieUp) ==
    Projected(Limited(SortedByTotal(GroupByUser(Matched(E, filter)), tieUp)))

\* GET /api/leaderboard, in the given version of the handler.
LeaderboardRoute(version, s, q, tieUp) ==
    /\ variant = "session"
    /\ requireAuth(s)
    /\ LET filter == DateFilter(version, PeriodOf(q), now)
           answer(status, more) ==
               res' = Res("GET /api/leaderboard", status, s, session[s],
                          [handled |-> TRUE, version |-> version, query |-> q] @@ more)
       IN  IF filter.kind = "invalid"
           THEN answer(400, [error |-> "Invalid period"])
           ELSE answer(200, [rows |-> Leaderboard(entries, filter, tieUp)])
    /\ UNCHANGED <<variant, now, tzEast, tzDst, client, users, session, entries, types, nextId, pending>>

GetLeaderboard(s, q, tieUp) == LeaderboardRoute("current", s, q, tieUp)
GetLeaderboardOlder(s, q, tieUp) == LeaderboardRoute("older", s, q, tieUp)

----------------------------------------------------------------------------
(* The routes that only read. *)

\* GET /api/auth/check
AuthCheck(s) ==
    /\ variant = "session"
    /\ res' = IF session[s].googleId # ""
              THEN Res("GET /api/auth/check", 200, s, session[s],
                       [handled |-> TRUE, body |-> session[s]])
              ELSE Res("GET /api/auth/check", 401, s, session[s],
                       [handled |-> TRUE, error |-> "Not authenticated"])
    /\ UNCHANGED <<variant, now, tzEast, tzDst, client, users, session, entries, types, nextId, pending>>

\* The order of strings in a sort of the store: by code unit, a prefix first.
\* CodeUnits lists the characters of the model's names in that order.
CodeUnits ==
    <<" ", "0", "1", "2", "3", "4", "5", "6", "7", "8", "9",
      "a", "b", "c", "d", "e", "f", "g", "h", "i", "j", "k", "l", "m",
      "n", "o", "p", "q", "r", "s", "t", "u", "v", "w", "x", "y", "z">>
CodeOf(c) == CHOOSE i \in DOMAIN CodeUnits : CodeUnits[i] = c

RECURSIVE StringBefore(_, _)
StringBefore(a, b) ==
    IF b = <<>> THEN FALSE
    ELSE IF a = <<>> THEN TRUE
    ELSE IF Head(a) = Head(b) THEN StringBefore(Tail(a), Tail(b))
    ELSE CodeOf(Head(a)) < CodeOf(Head(b))

\* DrinkType.find({ deleted: false }) of the session variant, DrinkType.find()
\* of the simple one.  (First a variant that finds the deleted ones too.)
FoundTypesWithDeleted(T) == T
FoundTypes(T) == IF variant = "session" THEN {d \in T : ~d.deleted} ELSE T

\* .sort({ name: 1 }): by name, ascending; types of the same name come in the
\* order of their ids or in the reverse order (tieUp).
SortedByName(T, tieUp) ==
    LET before(a, b) ==
            \/ StringBefore(a.name, b.name)
            \/ a.name = b.name /\ a.id # b.id /\ (tieUp <=> a.id < b.id)
        place(d) == 1 + Cardinality({q \in T : before(q, d)})
        placed == {<<place(d), d>> : d \in T}
    IN  [i \in 1..Cardinality(T) |-> (CHOOSE p \in placed : p[1] = i)[2]]

\* GET /api/types
GetTypes(s, tieUp) ==
    /\ requireAuth(s)
    /\ res' = Res("GET /api/types", 200, s, session[s],
                  [handled |-> TRUE, rows |-> SortedByName(FoundTypes(types), tieUp)])
    /\ UNCHANGED <<variant, now, tzEast, tzDst, client, users, session, entries, types, nextId, pending>>

\* CaffeineEntry.find().sort({ timestamp: -1 }), with .limit(50) in the
\* session variant: newest first; entries of the same instant come in the
\* order of their ids or in the reverse order (tieUp).
EntriesLimit == 50
NewestFirst(E, tieUp) ==
    LET before(a, b) ==
            \/ a.timestamp > b.timestamp
            \/ a.timestamp = b.timestamp /\ a.id # b.id /\ (tieUp <=> a.id < b.id)
        place(e) == 1 + Cardinality({q \in E : before(q, e)})
        placed == {<<place(e), e>> : e \in E}
        sorted == [i \in 1..Cardinality(E) |-> (CHOOSE p \in placed : p[1] = i)[2]]
    IN  IF variant = "session" /\ Len(sorted) > EntriesLimit
        THEN SubSeq(sorted, 1, EntriesLimit)
        ELSE sorted

\* GET /api/entries
GetEntries(s, tieUp) ==
    /\ requireAuth(s)
    /\ res' = Res("GET /api/entries", 200, s, session[s],
                  [handled |-> TRUE, rows |-> NewestFirst(entries, tieUp)])
    /\ UNCHANGED <<variant, now, tzEast, tzDst, client, users, session, entries, types, nextId, pending>>

\* today.setHours(0, 0, 0, 0) and tomorrow.setDate(tomorrow.getDate() + 1)
TodayMidnight(t) == Midnight(DayOf(t))
TomorrowMidnight(t) == Midnight(setDate(DayOf(t), getDate(DayOf(t)) + 1))

\* CaffeineEntry.find({ timestamp: { $gte: today, $lt: tomorrow } })
\* (First a variant with $lte for $lt.)
TodayEntriesThroughMidnight(E, t) ==
    {e \in E : e.timestamp >= TodayMidnight(t) /\ e.timestamp <= TomorrowMidnight(t)}
TodayEntries(E, t) ==
    {e \in E : e.timestamp >= TodayMidnight(t) /\ e.timestamp < TomorrowMidnight(t)}

\* GET /api/total-today
GetTotalToday(s) ==
    /\ requireAuth(s)
    /\ res' = Res("GET /api/total-today", 200, s, session[s],
                  [handled |-> TRUE,
                   total |-> SumMg(TodayEntries(entries, now)),
                   count |-> Cardinality(TodayEntries(entries, now))])
    /\ UNCHANGED <<variant, now, tzEast, tzDst, client, users, session, entries, types, nextId, pending>>

\* GET /api/total-all
\* (First a variant that totals the caller's entries only.)
GetTotalAllOfCaller(s) ==
    /\ requireAuth(s)
    /\ LET own == {e \in entries : e.userId = session[s].googleId}
       IN  res' = Res("GET /api/total-all", 200, s, session[s],
                      [handled |-> TRUE, total |-> SumMg(own), count |-> Cardinality(own)])
    /\ UNCHANGED <<variant, now, tzEast, tzDst, client, users, session, entries, types, nextId, pending>>
GetTotalAll(s) ==
    /\ requireAuth(s)
    /\ res' = Res("GET /api/total-all", 200, s, session[s],
                  [handled |-> TRUE, total |-> SumMg(entries), count |-> Cardinality(entries)])
    /\ UNCHANGED <<variant, now, tzEast, tzDst, client, users, session, entries, types, nextId, pending>>

----------------------------------------------------------------------------
(* The page of the session variant (src/public/script.js): adding an entry. *)

\* let selectedDrink = null; let selectedSize = null;
NullDrink == [null |-> TRUE, name |-> <<>>, sizes |-> <<>>]
NullSize == [null |-> TRUE, name |-> <<>>, caffeineMg |-> 0]

\* The toast: its type, its text and the names put into the text.
Toast(type, msg, of) == [type |-> type, msg |-> msg, of |-> of]
NoToast == Toast("", "", <<>>)

\* The page after loading, on the session sess: nothing selected, no modal
\* shown, no toast, no request in flight.  loaded tells which of loadStats()
\* and loadEntries() the submit handler has called since the last submit.
NoBody == EntryBody(JUndefined, JUndefined, JUndefined, "", -1)
NoClient(sess) ==
    [sess |-> sess,
     selectedDrink |-> NullDrink,
     selectedSize |-> NullSize,
     sizeModal |-> FALSE,
     entryModal |-> FALSE,
     toast |-> NoToast,
     loaded |-> [stats |-> FALSE, entries |-> FALSE],
     fetch |-> "none",
     sent |-> NoBody]

ClientStep(next) ==
    /\ variant = "session"
    /\ client' = next
    /\ UNCHANGED <<variant, now, tzEast, tzDst, users, session, entries, types, nextId, pending, res>>

\* selectDrink(drink): a drink of one size goes to the entry modal, a drink of
\* more sizes to the size selection modal.
selectDrink(drink) ==
    /\ ~client.entryModal
    /\ ~client.sizeModal
    /\ ClientStep(IF Len(drink.sizes) = 1
                  THEN [client EXCEPT !.selectedDrink = drink,
                                      !.selectedSize = drink.sizes[1],
                                      !.entryModal = TRUE]
                  ELSE [client EXCEPT !.selectedDrink = drink, !.sizeModal = TRUE])

\* selectSize(size), the click on the k-th option of the size selection modal.
selectSize(k) ==
    /\ client.sizeModal
    /\ k \in DOMAIN client.selectedDrink.sizes
    /\ ClientStep([client EXCEPT !.selectedSize = client.selectedDrink.sizes[k],
                                 !.sizeModal = FALSE,
                                 !.entryModal = TRUE])

\* closeAddEntryModal()
closeAddEntryModal(c) ==
    [c EXCEPT !.entryModal = FALSE, !.selectedDrink = NullDrink, !.selectedSize = NullSize]

\* window.onclick on the backdrop of a modal: every modal is closed.
WindowClick ==
    /\ client.entryModal \/ client.sizeModal
    /\ ClientStep([closeAddEntryModal(client) EXCEPT !.sizeModal = FALSE])

\* The submit handler of addEntryForm, up to await fetch("/api/entries", ...);
\* one request of the page is in flight at a time.
SubmitEntry ==
    /\ variant = "session"
    /\ client.entryModal
    /\ client.fetch = "none"
    /\ IF client.selectedDrink.null \/ client.selectedSize.null
       THEN client' = [client EXCEPT !.toast = Toast("error", "No drink selected", <<>>)]
       ELSE client' = [client EXCEPT
                          !.fetch = "sent",
                          !.loaded = [stats |-> FALSE, entries |-> FALSE],
                          !.sent = EntryBody(JStr(client.selectedDrink.name),
                                             JStr(client.selectedSize.name),
                                             JNum(client.selectedSize.caffeineMg), "", -1)]
    /\ res' = NoRes
    /\ UNCHANGED <<variant, now, tzEast, tzDst, users, session, entries, types, nextId, pending>>

\* The server serves the request of the page.
ServeEntry(s, b) ==
    /\ client.fetch = "sent"
    /\ res = NoRes
    /\ s = client.sess
    /\ b = client.sent
    /\ PostEntries(s, b) \/ Unauthenticated(s, "POST /api/entries")

\* `${selectedSize.name} ${selectedDrink.name} added!`: reading .name of
\* null throws a TypeError, which the handler's catch shows.
AddedToast(c) ==
    IF c.selectedSize.null \/ c.selectedDrink.null
    THEN Toast("error", "Cannot read properties of null (reading 'name')", <<>>)
    ELSE Toast("success", "added!", <<c.selectedSize.name, c.selectedDrink.name>>)

\* The submit handler from the response on: if (!res.ok) throw ...;
\* closeAddEntryModal(); loadStats(); loadEntries(); showToast(...), and the
\* catch.
AddEntryAnswered ==
    /\ client.fetch = "sent"
    /\ res.route = "POST /api/entries"
    /\ res.status # 0
    /\ LET done == [client EXCEPT !.fetch = "none", !.sent = NoBody]
           closed == closeAddEntryModal(done)
       IN  ClientStep(IF res.status \in 200..299
                      THEN [closed EXCEPT !.loaded = [stats |-> TRUE, entries |-> TRUE],
                                          !.toast = AddedToast(closed)]
                      ELSE [done EXCEPT !.toast =
                               Toast("error",
                                     IF res.error # "" THEN res.error ELSE "Failed to add entry",
                                     <<>>)])

----------------------------------------------------------------------------
(* The requests the model sends. *)

tea == <<"t", "e", "a">>
cup == <<"c", "u", "p">>
cola == <<"c", "o", "l", "a">>
mate == <<"m", "a", "t", "e">>

Day0 == DayNum(2024, 1, 7)

\* The instants the clock of Spec takes, the first being that of Init.
ClockInstants == {At(Day0, 1), At(Day0 + 1, 0)}

EntryBodies ==
    {EntryBody(JStr(tea), JStr(cup), JNum(30), "", -1),
     EntryBody(JStr(tea \o <<" ">>), JStr(<<" ">> \o cup), JStr(<<"3", "0">>), "g2", At(Day0, 0)),
     EntryBody(JUndefined, JStr(cup), JNum(30), "", -1),
     EntryBody(JStr(tea), JUndefined, JNum(30), "", -1),
     EntryBody(JStr(tea), JStr(cup), JUndefined, "", -1),
     EntryBody(JStr(tea), JStr(cup), JNum(0), "", -1),
     EntryBody(JStr(tea), JStr(cup), JNum(-5), "", -1),
     EntryBody(JStr(tea), JStr(cup), JStr(<<"0">>), "", -1),
     EntryBody(JStr(tea), JStr(cup), JStr(<<"0", "x", "1", "0">>), "", -1),
     EntryBody(JStr(tea), JStr(cup), JStr(<<"a", "b", "c">>), "", -1),
     EntryBody(JStr(<<" ">>), JStr(cup), JNum(30), "", -1),
     EntryBody(JNum(5), JStr(cup), JNum(30), "", -1)}

OneSize(caffeineMg) == JArray(<<SizeObject(JStr(cup), caffeineMg)>>)

TypeBodies ==
    {TypeBody(JStr(cola), OneSize(JNum(30))),
     TypeBody(JStr(<<" ">> \o cola \o <<" ">>), OneSize(JNum(30))),
     TypeBody(JStr(mate), OneSize(JStr(<<"0", "x", "1", "0">>))),
     TypeBody(JStr(cola), JArray(<<SizeNull>>)),
     TypeBody(JStr(cola), JArray(<<SizeObject(JStr(cup), JNum(0))>>)),
     TypeBody(JStr(cola), JArray(<<>>)),
     TypeBody(JStr(cola), NoArray),
     TypeBody(JUndefined, OneSize(JNum(30))),
     TypeBody(JStr(<<" ">>), OneSize(JNum(30)))}

EntryIds == 1..MaxEntries
TypeIds == 1..MaxTypes
PeriodParams == {"week", "month", "year", "all", "decade", NoParam}

ProtectedRoutes ==
    {"GET /api/types", "POST /api/types", "DELETE /api/types/:id",
     "GET /api/entries", "POST /api/entries", "DELETE /api/entries/:id",
     "GET /api/total-today", "GET /api/total-all",
     "GET /api/leaderboard", "GET /api/caffeine-chart"}

----------------------------------------------------------------------------
(* Specifications.  The three collections do not interact, so each part of  *)
(* the API is explored on its own, from a state in which, in the session    *)
(* variant, both accounts have logged in (s1 as g1, s2 as g2) and s3 has    *)
(* not.                                                                     *)

Registered(g) ==
    [googleId |-> g, email |-> Payload(g).email, name |-> Payload(g).name,
     picture |-> Payload(g).picture, lastLoginAt |-> now]

LoggedIn ==
    /\ users = IF variant = "session" THEN {Registered(g) : g \in GoogleIds} ELSE {}
    /\ session = [s \in SessionIds |->
                     CASE variant = "session" /\ s = "s1" -> SessionUser(Registered("g1"))
                       [] variant = "session" /\ s = "s2" -> SessionUser(Registered("g2"))
                       [] OTHER -> NoUser]

EmptyStore ==
    /\ entries = {}
    /\ types = {}
    /\ nextId = [entries |-> 1, types |-> 1]
    /\ pending = [i \in 1..MaxPending |-> Idle]
    /\ res = NoRes

\* The entries routes, both variants.
InitEntries ==
    /\ variant \in {"session", "simple"}
    /\ now = At(Day0, 1)
    /\ tzEast = FALSE
    /\ tzDst = FALSE
    /\ client = NoClient("s1")
    /\ LoggedIn
    /\ EmptyStore

NextEntries ==
    \/ \E t \in ClockInstants : AdvanceClock(t)
    \/ \E s \in SessionIds : Unauthenticated(s, "POST /api/entries")
    \/ \E s \in SessionIds : Unauthenticated(s, "DELETE /api/entries/:id")
    \/ \E s \in SessionIds, b \in EntryBodies : PostEntries(s, b)
    \/ \E s \in SessionIds, id \in EntryIds : DeleteEntryFind(s, id)
    \/ \E i \in Slots : DeleteEntryRemove(i)
    \/ \E s \in SessionIds, id \in EntryIds : SimpleDeleteEntry(s, id)

SpecEntries == InitEntries /\ [][NextEntries]_vars

\* The drink type routes, both variants.
InitTypes == InitEntries

NextTypes ==
    \/ \E s \in SessionIds : Unauthenticated(s, "POST /api/types")
    \/ \E s \in SessionIds : Unauthenticated(s, "DELETE /api/types/:id")
    \/ \E s \in SessionIds, b \in TypeBodies : PostTypesFind(s, b)
    \/ \E i \in Slots : PostTypesSave(i)
    \/ \E s \in SessionIds, id \in TypeIds : DeleteTypeFind(s, id)
    \/ \E i \in Slots : DeleteTypeSave(i)
    \/ \E s \in SessionIds, id \in TypeIds : SimpleDeleteType(s, id)

SpecTypes == InitTypes /\ [][NextTypes]_vars

\* The chart route of the session variant, over a calendar of two years.  The
\* clock moves through chosen dates: the 30th and the 31st of a month, and
\* dates 7, 45, 90 and 91 days apart and more than a year apart.
ChartInstants ==
    {At(DayNum(2023, 3, 5), 1), At(DayNum(2023, 4, 10), 1),
     At(DayNum(2024, 1, 1), 0), At(DayNum(2024, 1, 3), 1), At(DayNum(2024, 1, 7), 1),
     At(DayNum(2024, 2, 14), 1), At(DayNum(2024, 3, 30), 1), At(DayNum(2024, 3, 31), 1),
     At(DayNum(2024, 11, 15), 1)}

\* The requests POST /api/entries gets, as pairs of session and body: the
\* first user logs 30 mg drinks, the second 50 mg drinks.
ChartPosts ==
    {<<"s1", EntryBody(JStr(tea), JStr(cup), JNum(30), "", -1)>>,
     <<"s2", EntryBody(JStr(tea), JStr(cup), JNum(50), "", -1)>>}

InitChart ==
    /\ variant = "session"
    /\ now = At(DayNum(2023, 3, 5), 1)
    /\ tzEast \in BOOLEAN
    /\ tzDst = FALSE
    /\ client = NoClient("s1")
    /\ LoggedIn
    /\ EmptyStore

NextChart ==
    \/ \E t \in ChartInstants : AdvanceClock(t)
    \/ \E p \in ChartPosts : PostEntries(p[1], p[2])
    \/ \E q \in PeriodParams : GetChart("s1", q)

SpecChart == InitChart /\ [][NextChart]_vars

----------------------------------------------------------------------------

\* The chart of all time and the total of all time, in a zone east or west of
\* UTC, with or without daylight saving time.  The clock moves through dates
\* 90, 91, 540 and 541 days from 2023-01-01, the day count including both ends.
SpanInstants ==
    {At(DayNum(2023, 1, 1), 1), At(DayNum(2023, 1, 5), 0), At(DayNum(2023, 3, 31), 1),
     At(DayNum(2023, 4, 1), 0), At(DayNum(2024, 6, 23), 1), At(DayNum(2024, 6, 24), 0)}

SpanPosts == {<<"s1", EntryBody(JStr(tea), JStr(cup), JNum(30), "", -1)>>}

InitSpan ==
    /\ variant = "session"
    /\ now = At(DayNum(2023, 1, 1), 1)
    /\ tzEast \in BOOLEAN
    /\ tzDst \in BOOLEAN
    /\ client = NoClient("s1")
    /\ LoggedIn
    /\ EmptyStore

NextSpan ==
    \/ \E t \in SpanInstants : AdvanceClock(t)
    \/ \E p \in SpanPosts : PostEntries(p[1], p[2])
    \/ GetChart("s2", "all")
    \/ GetTotalAll("s2")

SpecSpan == InitSpan /\ [][NextSpan]_vars

----------------------------------------------------------------------------

\* DELETE /api/entries/:id of the session variant from two clients at a time:
\* the first user stores entries, both users delete, and two handlers can be
\* suspended between findById and findByIdAndDelete.
DeletePosts == {<<"s1", EntryBody(JStr(tea), JStr(cup), JNum(30), "", -1)>>}
DeleteSessions == {"s1", "s2"}

InitDeletes ==
    /\ variant = "session"
    /\ now = At(Day0, 1)
    /\ tzEast = FALSE
    /\ tzDst = FALSE
    /\ client = NoClient("s1")
    /\ LoggedIn
    /\ entries = {}
    /\ types = {}
    /\ nextId = [entries |-> 1, types |-> 1]
    /\ pending = [i \in 1..(MaxPending + 1) |-> Idle]
    /\ res = NoRes

NextDeletes ==
    \/ \E p \in DeletePosts : PostEntries(p[1], p[2])
    \/ \E s \in DeleteSessions, id \in EntryIds : DeleteEntryFind(s, id)
    \/ \E i \in Slots : DeleteEntryRemove(i)

SpecDeletes == InitDeletes /\ [][NextDeletes]_vars

----------------------------------------------------------------------------

\* The page of the first user adds entries: it has loaded the drinks tea, of
\* one size, and cola, of two; the user selects, submits, clicks beside the
\* modal, and logs out.
mug == <<"m", "u", "g">>
ClientDrinks ==
    {[null |-> FALSE, name |-> tea,
      sizes |-> <<[null |-> FALSE, name |-> cup, caffeineMg |-> 30]>>],
     [null |-> FALSE, name |-> cola,
      sizes |-> <<[null |-> FALSE, name |-> cup, caffeineMg |-> 30],
                  [null |-> FALSE, name |-> mug, caffeineMg |-> 50]>>]}
ClientSizeOptions == {1, 2}
ClientBodies ==
    {EntryBody(JStr(tea), JStr(cup), JNum(30), "", -1),
     EntryBody(JStr(cola), JStr(cup), JNum(30), "", -1),
     EntryBody(JStr(cola), JStr(mug), JNum(50), "", -1)}

InitClient ==
    /\ variant = "session"
    /\ now = At(Day0, 1)
    /\ tzEast = FALSE
    /\ tzDst = FALSE
    /\ client = NoClient("s1")
    /\ LoggedIn
    /\ EmptyStore

NextClient ==
    \/ \E d \in ClientDrinks : selectDrink(d)
    \/ \E k \in ClientSizeOptions : selectSize(k)
    \/ WindowClick
    \/ SubmitEntry
    \/ \E b \in ClientBodies : ServeEntry("s1", b)
    \/ AddEntryAnswered
    \/ Logout("s1")

SpecClient == InitClient /\ [][NextClient]_vars

----------------------------------------------------------------------------

\* The leaderboard and the chart of the session variant, with more users than
\* the leaderboard has rows: beside the two accounts of the sessions, the
\* accounts of Crowd have logged in and stored one entry each on 2023-03-15,
\* the i-th of 100 + i mg.
CrowdSize == LeaderboardLimit + 1
Crowd == {ToString(i) : i \in 1..CrowdSize}
CrowdInstant == At(DayNum(2023, 3, 15), 1)
CrowdUser(i) ==
    [googleId |-> ToString(i), email |-> ToString(i), name |-> ToString(i),
     picture |-> ToString(i), lastLoginAt |-> CrowdInstant]
CrowdEntry(i) ==
    [id |-> 100 + i,
     drinkName |-> tea,
     sizeName |-> cup,
     fullName |-> cup \o <<" ">> \o tea,
     caffeineMg |-> 100 + i,
     timestamp |-> CrowdInstant,
     userId |-> ToString(i),
     userName |-> ToString(i),
     userAvatar |-> ToString(i)]

\* The clock: 2024-03-01, then 2024-03-24, one week before the two instants
\* of 2024-03-31.
BoardInstants ==
    {At(DayNum(2024, 3, 1), 1), At(DayNum(2024, 3, 24), 1),
     At(DayNum(2024, 3, 31), 0), At(DayNum(2024, 3, 31), 1)}

\* The requests POST /api/entries gets, as pairs of session and body.
BoardPosts ==
    {<<"s1", EntryBody(JStr(tea), JStr(cup), JNum(30), "", -1)>>,
     <<"s2", EntryBody(JStr(tea), JStr(cup), JNum(30), "", -1)>>}

InitBoard ==
    /\ variant = "session"
    /\ now = At(DayNum(2024, 3, 1), 1)
    /\ tzEast = FALSE
    /\ tzDst = FALSE
    /\ client = NoClient("s1")
    /\ users = {Registered(g) : g \in GoogleIds} \cup {CrowdUser(i) : i \in 1..CrowdSize}
    /\ session = [s \in SessionIds |->
                     CASE s = "s1" -> SessionUser(Registered("g1"))
                       [] s = "s2" -> SessionUser(Registered("g2"))
                       [] OTHER -> NoUser]
    /\ entries = {CrowdEntry(i) : i \in 1..CrowdSize}
    /\ types = {}
    /\ nextId = [entries |-> 1, types |-> 1]
    /\ pending = [i \in 1..MaxPending |-> Idle]
    /\ res = NoRes

NextBoard ==
    \/ \E t \in BoardInstants : AdvanceClock(t)
    \/ \E p \in BoardPosts : PostEntries(p[1], p[2])
    \/ \E q \in PeriodParams, tieUp \in BOOLEAN : GetLeaderboard("s1", q, tieUp)
    \/ \E q \in PeriodParams, tieUp \in BOOLEAN : GetLeaderboardOlder("s1", q, tieUp)
    \/ \E q \in PeriodParams : GetChart("s1", q)

SpecBoard == InitBoard /\ [][NextBoard]_vars

----------------------------------------------------------------------------

\* A stored drink type, the bodies of POST /api/types that create cola and
\* mate, and the ids DELETE /api/types/:id is asked for.
StockType ==
    [id |-> MaxTypes + 1, name |-> tea,
     sizes |-> <<[name |-> cup, caffeineMg |-> 30]>>, deleted |-> FALSE]
SoftDeleteBodies ==
    {TypeBody(JStr(cola), OneSize(JNum(30))), TypeBody(JStr(mate), OneSize(JNum(30)))}
SoftDeleteIds == 1..(MaxTypes + 2)

\* Authentication in front of every protected route (session variant): s1 has
\* logged in as g1, s3 has not; both log in, as either account, and out.  The
\* store holds the type tea and has one more id to hand out in each
\* collection; one handler can be suspended at a time.
AuthSessions == {"s1", "s3"}
AuthEntryBodies == {EntryBody(JStr(tea), JStr(cup), JNum(30), "", -1)}
AuthTypeBodies == {TypeBody(JStr(cola), OneSize(JNum(30)))}

InitAuth ==
    /\ variant = "session"
    /\ now = At(Day0, 1)
    /\ tzEast = FALSE
    /\ tzDst = FALSE
    /\ client = NoClient("s1")
    /\ users = {Registered(g) : g \in GoogleIds}
    /\ session = [s \in SessionIds |->
                     IF s = "s1" THEN SessionUser(Registered("g1")) ELSE NoUser]
    /\ entries = {}
    /\ types = {StockType}
    /\ nextId = [entries |-> MaxEntries, types |-> MaxTypes]
    /\ pending = [i \in {1} |-> Idle]
    /\ res = NoRes

NextAuth ==
    \/ \E s \in AuthSessions, route \in ProtectedRoutes : Unauthenticated(s, route)
    \/ \E s \in AuthSessions : LoginInvalid(s)
    \/ \E s \in AuthSessions, g \in GoogleIds : LoginFind(s, g)
    \/ \E i \in Slots : LoginSave(i)
    \/ \E s \in AuthSessions : Logout(s)
    \/ \E s \in AuthSessions : AuthCheck(s)
    \/ \E s \in AuthSessions, tieUp \in BOOLEAN : GetTypes(s, tieUp)
    \/ \E s \in AuthSessions, b \in AuthTypeBodies : PostTypesFind(s, b)
    \/ \E i \in Slots : PostTypesSave(i)
    \/ \E s \in AuthSessions, id \in SoftDeleteIds : DeleteTypeFind(s, id)
    \/ \E i \in Slots : DeleteTypeSave(i)
    \/ \E s \in AuthSessions, tieUp \in BOOLEAN : GetEntries(s, tieUp)
    \/ \E s \in AuthSessions, b \in AuthEntryBodies : PostEntries(s, b)
    \/ \E s \in AuthSessions, id \in EntryIds : DeleteEntryFind(s, id)
    \/ \E i \in Slots : DeleteEntryRemove(i)
    \/ \E s \in AuthSessions : GetTotalToday(s)
    \/ \E s \in AuthSessions : GetTotalAll(s)
    \/ \E s \in AuthSessions, tieUp \in BOOLEAN : GetLeaderboard(s, "week", tieUp)
    \/ \E s \in AuthSessions : GetChart(s, "week")

SpecAuth == InitAuth /\ [][NextAuth]_vars

----------------------------------------------------------------------------

\* POST /api/auth/google from a store without users: two clients log in, as
\* either account, and two handlers can be suspended at a time.
LoginSessions == {"s1", "s2"}
LoginInstants == {At(Day0, 0), At(Day0, 1), At(Day0 + 1, 0)}

InitLogin ==
    /\ variant = "session"
    /\ now = At(Day0, 0)
    /\ tzEast = FALSE
    /\ tzDst = FALSE
    /\ client = NoClient("s1")
    /\ users = {}
    /\ session = [s \in SessionIds |-> NoUser]
    /\ entries = {}
    /\ types = {}
    /\ nextId = [entries |-> 1, types |-> 1]
    /\ pending = [i \in 1..(MaxPending + 1) |-> Idle]
    /\ res = NoRes

NextLogin ==
    \/ \E t \in LoginInstants : AdvanceClock(t)
    \/ \E s \in LoginSessions : LoginInvalid(s)
    \/ \E s \in LoginSessions, g \in GoogleIds : LoginFind(s, g)
    \/ \E i \in Slots : LoginSave(i)
    \/ \E s \in LoginSessions : AuthCheck(s)

SpecLogin == InitLogin /\ [][NextLogin]_vars

----------------------------------------------------------------------------

\* The drink types of the session variant with their soft delete: the store
\* holds the type tea, the types cola and mate are created, types are deleted
\* and listed, and two handlers can be suspended at a time.
InitSoftDelete ==
    /\ variant = "session"
    /\ now = At(Day0, 1)
    /\ tzEast = FALSE
    /\ tzDst = FALSE
    /\ client = NoClient("s1")
    /\ LoggedIn
    /\ entries = {}
    /\ types = {StockType}
    /\ nextId = [entries |-> 1, types |-> 1]
    /\ pending = [i \in 1..(MaxPending + 1) |-> Idle]
    /\ res = NoRes

NextSoftDelete ==
    \/ \E b \in SoftDeleteBodies : PostTypesFind("s1", b)
    \/ \E i \in Slots : PostTypesSave(i)
    \/ \E id \in SoftDeleteIds : DeleteTypeFind("s1", id)
    \/ \E i \in Slots : DeleteTypeSave(i)
    \/ \E tieUp \in BOOLEAN : GetTypes("s1", tieUp)

SpecSoftDelete == InitSoftDelete /\ [][NextSoftDelete]_vars

----------------------------------------------------------------------------

\* The totals, both variants, around the midnights of 2024-01-31: the last
\* instant of the day before, the first and the last of the day, and the
\* first of 2024-02-01.
TotalsDay == DayNum(2024, 1, 31)
TotalsInstants ==
    {At(TotalsDay - 1, TicksPerDay - 1), At(TotalsDay, 0),
     At(TotalsDay, TicksPerDay - 1), At(TotalsDay + 1, 0)}
TotalsPosts ==
    {<<"s1", EntryBody(JStr(tea), JStr(cup), JNum(30), "", -1)>>,
     <<"s2", EntryBody(JStr(tea), JStr(cup), JNum(50), "", -1)>>}

InitTotals ==
    /\ variant \in {"session", "simple"}
    /\ now = At(TotalsDay, 0)
    /\ tzEast = FALSE
    /\ tzDst = FALSE
    /\ client = NoClient("s1")
    /\ LoggedIn
    /\ EmptyStore

NextTotals ==
    \/ \E t \in TotalsInstants : SetClock(t)
    \/ \E p \in TotalsPosts : PostEntries(p[1], p[2])
    \/ GetTotalToday("s1")
    \/ GetTotalAll("s2")

SpecTotals == InitTotals /\ [][NextTotals]_vars

----------------------------------------------------------------------------
(* Properties of the chart route, checked under SpecChart. *)

\* A chart response that carries an axis.
ChartAnswered ==
    /\ res.route = "GET /api/caffeine-chart"
    /\ res.status = 200
    /\ res.kind = "range"

\* The local calendar step (day, month or year) of a day, as a number that
\* grows by one from each step to the next.
StepIndex(step, day) ==
    CASE step = "day" -> day
      [] step = "month" -> getFullYear(day) * 12 + getMonth(day)
      [] step = "year" -> getFullYear(day)

\* The entries with startDate <= timestamp <= now.
InRange == {e \in entries : Midnight(res.startDay) <= e.timestamp /\ e.timestamp <= now}

\* The entries of the range whose local timestamp truncates to the step of day.
InBucket(day) ==
    {e \in InRange : StepIndex(res.step, DayOf(e.timestamp)) = StepIndex(res.step, day)}

C2_OneBucketPerStep ==
    ChartAnswered =>
        /\ Len(res.axis) =
              StepIndex(res.step, DayOf(now)) - StepIndex(res.step, res.startDay) + 1
        /\ \A i \in DOMAIN res.axis :
              StepIndex(res.step, res.axis[i]) = StepIndex(res.step, res.startDay) + i - 1
        /\ \A e \in InRange : \E i \in DOMAIN res.axis : e \in InBucket(res.axis[i])

\* C3: period "week" answers 7 daily buckets, for today minus 6 days through
\* today in ascending order, and period "month" 30, for today minus 29 days
\* through today; each holds the total of its day.
DailyWindow(days) ==
    /\ Len(res.labels) = days
    /\ Len(res.values) = days
    /\ \A i \in 1..days :
          LET day == DayOf(now) - days + i
          IN  /\ res.labels[i] = <<getMonth(day), getDate(day)>>
              /\ res.values[i] =
                    SumMg({e \in entries : DayOf(e.timestamp) = day /\ e.timestamp <= now})

FirstEntryDay == CHOOSE d \in {DayOf(e.timestamp) : e \in entries} :
                    \A e \in entries : d <= DayOf(e.timestamp)
LastEntryDay == CHOOSE d \in {DayOf(e.timestamp) : e \in entries} :
                    \A e \in entries : d >= DayOf(e.timestamp)

\* A chart response to period "all" when the entries span at most 90 days.
AllDaily ==
    /\ ChartAnswered
    /\ res.query = "all"
    /\ LastEntryDay - FirstEntryDay + 1 <= 90

C5_LabelsDistinct ==
    ChartAnswered =>
        \A i, j \in DOMAIN res.labels : i # j => res.labels[i] # res.labels[j]

----------------------------------------------------------------------------
(* Properties of the entries routes, checked under SpecEntries. *)

\* C6: in the session variant an entry leaves the store only in a step that
\* answers 200 to a DELETE /api/entries/:id for its id from a session whose
\* user's googleId is the entry's userId; a DELETE from any other signed-in
\* user for a stored entry is answered 403 and leaves the store as it was.
\* The steps of other creates and deletes interleave freely.
C6_OnlyOwnerDeletes ==
    [][variant = "session" =>
          /\ \A e \in entries \ entries' :
                /\ res'.route = "DELETE /api/entries/:id"
                /\ res'.status = 200
                /\ res'.id = e.id
                /\ res'.user = e.userId
          /\ (/\ res'.route = "DELETE /api/entries/:id"
              /\ res'.handled
              /\ \E e \in entries : e.id = res'.id /\ e.userId # res'.user)
             => (res'.status = 403 /\ entries' = entries)]_vars

\* A non-owner has just been refused while the owner's own delete of another
\* entry is suspended between its two store operations.
C6_Witness ==
    /\ variant = "session"
    /\ res.route = "DELETE /api/entries/:id"
    /\ res.status = 403
    /\ \E e \in entries : e.id = res.id /\ e.userId # res.user
    /\ \E i \in Slots : pending[i].kind = "deleteEntry" /\ pending[i].id # res.id

\* C7: in the session variant the entry a POST /api/entries creates is stored
\* with the googleId, name and picture of the session user who sent the
\* request and with the time of its creation as timestamp, whatever userId
\* or timestamp the body carries.
C7_EntryCarriesSessionUser ==
    (variant = "session" /\ res.route = "POST /api/entries" /\ res.status = 201) =>
        /\ res.doc \in entries
        /\ res.doc.userId = session[res.sess].googleId
        /\ res.doc.userName = session[res.sess].name
        /\ res.doc.userAvatar = session[res.sess].picture
        /\ res.doc.timestamp = now

\* An entry created from a body that names another user and an earlier time.
C7_Witness ==
    /\ variant = "session"
    /\ res.route = "POST /api/entries"
    /\ res.status = 201
    /\ res.req.userId \in GoogleIds \ {res.doc.userId}
    /\ res.req.timestamp >= 0
    /\ res.req.timestamp # res.doc.timestamp

\* A field of the body is missing.
Missing(v) == v.t \in {"undefined", "null"}

\* caffeineMg is zero or negative, as a number or as a decimal numeral.
ZeroOrNegative(v) ==
    \/ v.t = "number" /\ v.n <= 0
    \/ v.t = "string" /\ AllDigits(v.s, <<"0">>)

\* C8: a POST /api/entries that reaches the handler (in the session variant:
\* from a signed-in session) and whose drinkName, sizeName or caffeineMg is
\* missing, or whose caffeineMg is zero or negative, is answered 400 and
\* leaves the entries collection unchanged, in both variants.
C8_InvalidEntryRejected ==
    [][(/\ res'.route = "POST /api/entries"
        /\ res'.handled
        /\ \/ Missing(res'.req.drinkName)
           \/ Missing(res'.req.sizeName)
           \/ Missing(res'.req.caffeineMg)
           \/ ZeroOrNegative(res'.req.caffeineMg))
       => (res'.status = 400 /\ entries' = entries)]_vars

\* A body with caffeineMg -5 refused while the store holds an entry.
C8_Witness ==
    /\ res.route = "POST /api/entries"
    /\ res.status = 400
    /\ res.req.caffeineMg = JNum(-5)
    /\ entries # {}

\* C9: every stored entry has caffeineMg > 0 and a drinkName, sizeName and
\* fullName that are non-empty after trimming.
C9_StoredEntriesValid ==
    \A e \in entries :
        /\ e.caffeineMg > 0
        /\ Trim(e.drinkName) # <<>>
        /\ Trim(e.sizeName) # <<>>
        /\ Trim(e.fullName) # <<>>

----------------------------------------------------------------------------
(* Properties of the drink type routes, checked under SpecTypes. *)

\* C10: with no other request in progress, a POST /api/types whose trimmed
\* name is the name of a stored drink type is answered 400 and leaves the
\* types collection as it was.
C10_DuplicateNameRejected ==
    [][(/\ res'.route = "POST /api/types"
        /\ res'.handled
        /\ res'.step = "findOne"
        /\ \A i \in Slots : pending[i].kind = "idle"
        /\ res'.req.name.t = "string"
        /\ \E d \in types : d.name = Trim(res'.req.name.s))
       => (res'.status = 400 /\ types' = types)]_vars

----------------------------------------------------------------------------
(* Properties of the leaderboard route and of the period parameter,        *)
(* checked under SpecBoard.                                                *)

\* A leaderboard response that carries a ranking.
BoardAnswered ==
    /\ res.route = "GET /api/leaderboard"
    /\ res.handled
    /\ res.status = 200

\* C11: in every leaderboard response, of the current and of the older
\* version of the handler and for every period, the rows are in the order of
\* totalCaffeine descending and there are at most 50 of them.
C11_RowsDescendingAtMostFifty ==
    BoardAnswered =>
        /\ Len(res.rows) <= 50
        /\ \A i, j \in DOMAIN res.rows :
              i < j => res.rows[i].totalCaffeine >= res.rows[j].totalCaffeine

\* A response of 50 rows, not all of the same total, while the entries the
\* period selects are of more than 50 users.
C11_Witness ==
    /\ BoardAnswered
    /\ Len(res.rows) = 50
    /\ res.rows[1].totalCaffeine > res.rows[50].totalCaffeine
    /\ res.query # "all"
    /\ Cardinality({e.userId : e \in {f \in entries : f.timestamp >= YearAgo(now)}}) > 50

\* The instant the given number of calendar months before t: the same day of
\* the month and time of day, or the last day of that month when it has no
\* such day.
CalendarMonthsBefore(t, months) ==
    LET day == DayOf(t)
        first == MakeDay(getFullYear(day), getMonth(day) - months, 1)
        length == MakeDay(getFullYear(day), getMonth(day) - months + 1, 1) - first
        date == IF getDate(day) < length THEN getDate(day) ELSE length
    IN  At(first + date - 1, TickOf(t))

\* The entries within the window of a period.
InWindow(period) ==
    CASE period = "week" -> {e \in entries : e.timestamp >= now - 7 * TicksPerDay}
      [] period = "month" -> {e \in entries : e.timestamp >= CalendarMonthsBefore(now, 1)}
      [] period = "year" -> {e \in entries : e.timestamp >= CalendarMonthsBefore(now, 12)}
      [] period = "all" -> entries

\* C12: a leaderboard response has at most one row per userId; the
\* totalCaffeine and the entryCount of a row are the sum of caffeineMg and the
\* number of that user's stored entries within the window of the period (week:
\* at or after now minus 7 days; month: now minus 1 calendar month; year: now
\* minus 1 calendar year; all: every entry); and every user with an entry in
\* the window has a row when there are at most 50 such users.
C12_OneRowPerUserOverWindow ==
    BoardAnswered =>
        LET window == InWindow(PeriodOf(res.query))
            of(u) == {e \in window : e.userId = u}
            present == {e.userId : e \in window}
        IN  /\ \A i, j \in DOMAIN res.rows :
                  res.rows[i].userId = res.rows[j].userId => i = j
            /\ \A i \in DOMAIN res.rows :
                  /\ res.rows[i].totalCaffeine = SumMg(of(res.rows[i].userId))
                  /\ res.rows[i].entryCount = Cardinality(of(res.rows[i].userId))
            /\ Cardinality(present) <= 50 =>
                  \A u \in present : \E i \in DOMAIN res.rows : res.rows[i].userId = u

\* The periods the routes know.
KnownPeriods == {"week", "month", "year", "all"}
PeriodRoutes == {"GET /api/caffeine-chart", "GET /api/leaderboard"}

\* C20: the chart and the leaderboard answer a period other than week, month,
\* year and all with 400 and with no labels, values or ranking; a request
\* without the parameter is answered as one for week: the chart with the seven
\* daily buckets from six days ago through today, the leaderboard with the
\* users that have an entry at or after now minus 7 days.
C20_OtherPeriodsRejected ==
    (res.route \in PeriodRoutes /\ res.handled) =>
        /\ res.query \notin KnownPeriods \cup {NoParam} =>
              /\ res.status = 400
              /\ DOMAIN res \cap {"labels", "values", "rows"} = {}
        /\ (res.query = NoParam /\ res.route = "GET /api/caffeine-chart") =>
              /\ res.status = 200
              /\ res.step = "day"
              /\ res.axis = [i \in 1..7 |-> DayOf(now) - 7 + i]
        /\ (res.query = NoParam /\ res.route = "GET /api/leaderboard") =>
              /\ res.status = 200
              /\ {res.rows[i].userId : i \in DOMAIN res.rows}
                    = {e.userId : e \in InWindow("week")}

\* A leaderboard request for the period "decade", answered 400 without a
\* ranking.
C20_Witness ==
    /\ res.route = "GET /api/leaderboard"
    /\ res.handled
    /\ res.query = "decade"
    /\ res.status = 400
    /\ "rows" \notin DOMAIN res

----------------------------------------------------------------------------
(* Properties of authentication, checked under SpecAuth. *)

\* A step that serves a request from its arrival: no suspended handler
\* resumes in it.
Arrival == \A i \in Slots : pending[i].kind # "idle" => pending'[i] = pending[i]

\* A request to a protected route arrives on a session without a user.
ArrivesWithoutUser ==
    /\ res'.route \in ProtectedRoutes
    /\ Arrival
    /\ session[res'.sess].googleId = ""

\* C13: in the session variant a request to a protected route that arrives on
\* a session without a user is answered 401 by requireAuth, its handler does
\* not run, and the step leaves the entries, types and users collections as
\* they were.
C13_NoSessionNoAccess ==
    [][ArrivesWithoutUser =>
           /\ res'.status = 401
           /\ ~res'.handled
           /\ pending' = pending
           /\ entries' = entries
           /\ types' = types
           /\ users' = users]_vars

\* A 401 from a protected route on the session that was logged in at first,
\* while entries and types are stored.
C13_Witness ==
    /\ res.route \in ProtectedRoutes
    /\ res.status = 401
    /\ res.sess = "s1"
    /\ entries # {}
    /\ types # {}

\* C14: a successful POST /api/auth/google sets the user of its session to
\* the user it returns, a successful POST /api/auth/logout leaves its session
\* without a user, and no other step changes a session; GET /api/auth/check
\* answers with the user of its session, or 401 when there is none, and a
\* request to a protected route that arrives on a session without a user is
\* answered 401.  So a session has the user of its latest successful login
\* from that login to the next successful logout, and none from a logout to
\* the next successful login.
C14_SessionFollowsLoginAndLogout ==
    [][/\ (res'.route = "POST /api/auth/google" /\ res'.status = 200) =>
             /\ res'.body.googleId \in GoogleIds
             /\ session' = [session EXCEPT ![res'.sess] = res'.body]
       /\ (res'.route = "POST /api/auth/logout" /\ res'.status = 200) =>
             session' = [session EXCEPT ![res'.sess] = NoUser]
       /\ (res'.route \notin {"POST /api/auth/google", "POST /api/auth/logout"}
              \/ res'.status # 200) =>
             session' = session
       /\ res'.route = "GET /api/auth/check" =>
             IF session[res'.sess] = NoUser
             THEN res'.status = 401
             ELSE res'.status = 200 /\ res'.body = session[res'.sess]
       /\ ArrivesWithoutUser => res'.status = 401]_vars

\* GET /api/auth/check answers 401 on the session that was logged in at
\* first, while the other session has logged in as g2.
C14_Witness ==
    /\ res.route = "GET /api/auth/check"
    /\ res.status = 401
    /\ res.sess = "s1"
    /\ session["s3"].googleId = "g2"

----------------------------------------------------------------------------
(* Properties of POST /api/auth/google, checked under SpecLogin. *)

\* A step in which the handler of a login with a verified token answers.
VerifiedLoginAnswers ==
    \E i \in Slots : pending[i].kind = "login" /\ pending'[i].kind = "idle"

\* C15: every POST /api/auth/google with a verified token is answered with
\* success and sets the user of its session; the users collection holds at
\* most one User per googleId; a successful login leaves exactly one User of
\* its googleId, with lastLoginAt the time of that login, and no other step
\* changes the users collection.
C15_VerifiedLoginSucceeds ==
    [][/\ VerifiedLoginAnswers =>
             /\ res'.route = "POST /api/auth/google"
             /\ res'.status = 200
             /\ session'[res'.sess] = res'.body
             /\ \E u \in users' :
                   /\ u.googleId = res'.body.googleId
                   /\ u.lastLoginAt = now
                   /\ \A v \in users' : v.googleId = u.googleId => v = u
       /\ ~VerifiedLoginAnswers => users' = users
       /\ \A u, v \in users' : u.googleId = v.googleId => u = v]_vars

----------------------------------------------------------------------------
(* Properties of the soft delete of drink types, checked under             *)
(* SpecSoftDelete.                                                         *)

\* A response of GET /api/types.
TypesListed ==
    /\ res'.route = "GET /api/types"
    /\ res'.handled
    /\ res'.status = 200

\* C16: GET /api/types of the session variant returns each stored type whose
\* deleted flag is false once, and no other, in the order of the names
\* ascending; a DELETE /api/types/:id answered 200 leaves the type marked
\* deleted, and a type marked deleted stays so, so that it is in no later
\* response.
C16_ListsTheTypesNotDeleted ==
    [][/\ TypesListed =>
             /\ {res'.rows[i] : i \in DOMAIN res'.rows} = {d \in types : ~d.deleted}
             /\ \A i, j \in DOMAIN res'.rows :
                   i < j => /\ res'.rows[i] # res'.rows[j]
                            /\ ~StringBefore(res'.rows[j].name, res'.rows[i].name)
       /\ (res'.route = "DELETE /api/types/:id" /\ res'.status = 200) =>
             \A d \in types' : d.id = res'.id => d.deleted
       /\ \A d \in types : d.deleted =>
             \A e \in types' : e.id = d.id => e.deleted]_vars

\* A response with two types, which are not in the order they were created
\* in, while a deleted type is stored.
C16_Witness ==
    /\ res.route = "GET /api/types"
    /\ res.handled
    /\ Len(res.rows) = 2
    /\ res.rows[1].id > res.rows[2].id
    /\ res.rows[1].name # res.rows[2].name
    /\ \E d \in types : d.deleted

\* C17: DELETE /api/types/:id of the session variant is answered 404, and
\* changes nothing, when it arrives for an id no type has; is answered 400,
\* and changes nothing, when it arrives for a type marked deleted; is answered
\* 200 only in a step that takes the type from not deleted to deleted, so that
\* at most one request for a type is answered 200; and no step removes a type
\* or changes another field of it.
C17_DeletedOnceAndKept ==
    [][/\ (res'.route = "DELETE /api/types/:id" /\ res'.handled /\ Arrival) =>
             /\ (\A d \in types : d.id # res'.id) =>
                    res'.status = 404 /\ types' = types
             /\ (\E d \in types : d.id = res'.id /\ d.deleted) =>
                    res'.status = 400 /\ types' = types
       /\ (res'.route = "DELETE /api/types/:id" /\ res'.status = 200) =>
             \E d \in types :
                /\ d.id = res'.id
                /\ ~d.deleted
                /\ types' = (types \ {d}) \cup {[d EXCEPT !.deleted = TRUE]}
       /\ \A d \in types : d \in types' \/ [d EXCEPT !.deleted = TRUE] \in types']_vars

----------------------------------------------------------------------------
(* Properties of the creating routes' answers, checked under SpecEntries. *)

\* C18: a POST /api/entries or POST /api/types that is answered without
\* storing a document (the model has no other cause for it than the fields of
\* the body: one is missing or invalid, or the name is taken) is answered 400,
\* never 500.
C18_RejectedWith400 ==
    (/\ res.route \in {"POST /api/entries", "POST /api/types"}
     /\ res.handled
     /\ res.status \notin {0, 201})
    => res.status = 400

----------------------------------------------------------------------------
(* Properties of the totals, checked under SpecTotals. *)

\* C19: the total and the count of GET /api/total-today are the sum of
\* caffeineMg and the number of the stored entries, of all users, with
\* todayMidnight <= timestamp < tomorrowMidnight, tomorrow's midnight being
\* one day after today's.
C19_TodayFromMidnightToMidnight ==
    (res.route = "GET /api/total-today" /\ res.handled) =>
        LET todayMidnight == (now \div TicksPerDay) * TicksPerDay
            today == {e \in entries :
                         /\ todayMidnight <= e.timestamp
                         /\ e.timestamp < todayMidnight + TicksPerDay}
        IN  /\ res.total = SumMg(today)
            /\ res.count = Cardinality(today)

\* A response that counts one entry, stamped at today's midnight, while the
\* other stored entry, of another user, is stamped at tomorrow's midnight.
C19_Witness ==
    /\ res.route = "GET /api/total-today"
    /\ res.handled
    /\ res.count = 1
    /\ \E e, f \in entries :
          /\ e.timestamp = (now \div TicksPerDay) * TicksPerDay
          /\ f.timestamp = (now \div TicksPerDay + 1) * TicksPerDay
          /\ res.total = e.caffeineMg
          /\ f.caffeineMg # e.caffeineMg

----------------------------------------------------------------------------
(* Properties of the chart's steps, checked under SpecChart. *)

\* C21: in a chart response with the monthly step, startDate is the first
\* day of a month and the i-th date of the axis is day 1 of the i-th calendar
\* month from it; with the yearly step, startDate is January 1 and the i-th
\* date of the axis is January 1 of the i-th year from it.
C21_StepsAlignedToDayOne ==
    ChartAnswered =>
        /\ res.step = "month" =>
              /\ getDate(res.startDay) = 1
              /\ \A i \in DOMAIN res.axis :
                    res.axis[i] = MakeDay(getFullYear(res.startDay),
                                          getMonth(res.startDay) + i - 1, 1)
        /\ res.step = "year" =>
              /\ res.startDay = DayNum(getFullYear(res.startDay), 1, 1)
              /\ \A i \in DOMAIN res.axis :
                    res.axis[i] = DayNum(getFullYear(res.startDay) + i - 1, 1, 1)

----------------------------------------------------------------------------
(* Properties of the chart of all time, checked under SpecSpan. *)

\* The number of calendar days from the day of the earliest entry to the day
\* of the latest one, both included.
InclusiveDays == DayOf(LatestEntry(entries).timestamp) - DayOf(EarliestEntry(entries).timestamp) + 1

AllAnswered == ChartAnswered /\ res.query = "all" /\ entries # {}

\* C22: a chart of all time over a store with an entry has the daily step
\* exactly when the days from the earliest entry's day to the latest one's,
\* both included, are at most 90, the monthly step exactly when they are 91 to
\* 540 and the yearly step exactly when they are more than 540; the monthly
\* chart starts on day 1 of the earliest entry's month and the yearly one on
\* January 1 of the earliest entry's year.
C22_StepFollowsInclusiveDays ==
    AllAnswered =>
        LET first == DayOf(EarliestEntry(entries).timestamp)
        IN  /\ (res.step = "day") = (InclusiveDays <= 90)
            /\ (res.step = "month") = (InclusiveDays >= 91 /\ InclusiveDays <= 540)
            /\ (res.step = "year") = (InclusiveDays > 540)
            /\ res.step = "month" =>
                  res.startDay = DayNum(getFullYear(first), getMonth(first), 1)
            /\ res.step = "year" => res.startDay = DayNum(getFullYear(first), 1, 1)

----------------------------------------------------------------------------
(* Properties of concurrent requests on the types, checked under
   SpecSoftDelete. *)

\* C23: in every reachable state, also when handlers of POST /api/types
\* interleave, no two stored types have the same (trimmed) name.
C23_NamesUnique == \A a, b \in types : a.name = b.name => a = b

----------------------------------------------------------------------------
(* Properties of the chart of all time, checked under SpecChart, whose clock
   never goes back: no entry is stamped later than now. *)

AllChartAnswered ==
    /\ res.route = "GET /api/caffeine-chart"
    /\ res.status = 200
    /\ PeriodOf(res.query) = "all"

\* C24: the chart of all time has no label and no value when the store holds
\* no entry, and at least one bucket when it holds one.
C24_EmptyExactlyWithoutEntries ==
    AllChartAnswered =>
        /\ Len(res.labels) = Len(res.values)
        /\ entries = {} => res.labels = <<>> /\ res.values = <<>>
        /\ entries # {} => Len(res.labels) >= 1

C24_Witness == AllChartAnswered /\ entries # {} /\ Len(res.labels) >= 1

----------------------------------------------------------------------------
(* The frame of the entries collection, checked under SpecAuth, where every
   route is served. *)

\* C25: a step changes the entries collection only by adding one entry with a
\* new id, when POST /api/entries answers 201 with it, or by removing one
\* whole entry, when DELETE /api/entries/:id answers 200 for its id; the
\* entries that stay keep every field, and every other route and answer
\* leaves the collection as it was.
C25_Step ==
    \/ entries' = entries
    \/ /\ res'.route = "POST /api/entries"
       /\ res'.status = 201
       /\ \A e \in entries : e.id # res'.doc.id
       /\ entries' = entries \cup {res'.doc}
    \/ /\ res'.route = "DELETE /api/entries/:id"
       /\ res'.status = 200
       /\ \E e \in entries : e.id = res'.id /\ entries' = entries \ {e}
C25_EntriesOnlyInsertedOrRemoved == [][C25_Step]_vars

\* An entry was added and removed again.
C25_Witness ==
    /\ res.route = "DELETE /api/entries/:id"
    /\ res.status = 200
    /\ entries = {}
    /\ nextId.entries > MaxEntries

----------------------------------------------------------------------------
(* Failing store operations, checked under SpecLogin, where user.save() is
   rejected by the unique index on googleId. *)

\* A step in which the handler of a login resumes with the insert of a User
\* whose googleId the collection already holds: the store rejects the save.
LoginSaveRejected ==
    \E i \in Slots :
        /\ pending[i].kind = "login"
        /\ pending'[i].kind = "idle"
        /\ pending[i].doc.id = 0
        /\ \E u \in users : u.googleId = pending[i].doc.googleId

\* C26: a request whose store operation fails is answered 500 with a generic
\* message and leaves the collections as they were before it.
C26_StoreFailureAnswered500 ==
    [][LoginSaveRejected =>
           /\ res'.status = 500
           /\ users' = users
           /\ entries' = entries
           /\ types' = types]_vars

----------------------------------------------------------------------------
(* The chart of all time against the total of all time, checked under
   SpecSpan. *)

\* The sum of the values of a chart.
RECURSIVE SumAt(_, _)
SumAt(v, S) ==
    IF S = {} THEN 0
    ELSE LET i == CHOOSE i \in S : TRUE IN v[i] + SumAt(v, S \ {i})
SumOfValues(v) == SumAt(v, {i \in DOMAIN v : v[i] # 0})

TotalAllAnswered == res.route = "GET /api/total-all" /\ res.status = 200

\* C27: the values of a chart of all time add up to the caffeineMg of all
\* stored entries, whichever step it has, and so to the total that GET
\* /api/total-all returns: the one request answered right after the other
\* (nothing written in between), in either order, gives the same amount.
C27_Step ==
    /\ AllChartAnswered' => SumOfValues(res'.values) = SumMg(entries')
    /\ (AllChartAnswered /\ TotalAllAnswered') => res'.total = SumOfValues(res.values)
    /\ (TotalAllAnswered /\ AllChartAnswered') => SumOfValues(res'.values) = res.total
----------------------------------------------------------------------------
(* Concurrent deletes of one entry, checked under SpecDeletes. *)

\* C28: ids are not handed out twice, so an entry is removed at most once;
\* of the DELETE /api/entries/:id requests for one id at most one is answered
\* 200 exactly when a request is answered 200 only in the step that removes
\* the entry.  A request answered while the entry is stored gets 200 and
\* removes it, or 403; a request answered when it is gone gets 404.
C28_Step ==
    (/\ res'.route = "DELETE /api/entries/:id"
     /\ res'.handled
     /\ res'.status # 0) =>
        IF \E e \in entries : e.id = res'.id
        THEN \/ res'.status = 403
             \/ res'.status = 200 /\ \A e \in entries' : e.id # res'.id
        ELSE res'.status = 404
C28_OneDeleteSucceeds == [][C28_Step]_vars

----------------------------------------------------------------------------
(* Names of deleted types, checked under SpecSoftDelete. *)

\* C29: a POST /api/types that arrives with the (trimmed) name of a stored
\* type, deleted or not, is answered 400 "Drink type already exists"; no step
\* adds a type with the name of a stored type, so a deleted name is not
\* created again; and a name whose types are all deleted stays out of GET
\* /api/types.
C29_Step ==
    /\ (/\ res'.route = "POST /api/types"
        /\ res'.handled
        /\ Arrival
        /\ res'.req.name.t = "string"
        /\ ExistingType(res'.req.name) # {}) =>
            /\ res'.status = 400
            /\ res'.error = "Drink type already exists"
    /\ \A x \in types' \ types : \A d \in types : x.name # d.name \/ x.id = d.id
    /\ \A d \in types :
          (\A x \in types : x.name = d.name => x.deleted) =>
              (\A x \in FoundTypes(types') : x.name # d.name)
C29_DeletedNameStaysTaken == [][C29_Step]_vars

----------------------------------------------------------------------------
(* Properties of the page's add-entry form, checked under SpecClient. *)

\* C30: when the submit handler of the add-entry form, sent with a drink and a
\* size selected, resumes on a successful answer of POST /api/entries, it
\* closes the entry modal, resets selectedDrink and selectedSize to null, calls
\* loadStats and loadEntries and shows a success toast that names the size
\* and the drink that were sent; it shows no error toast.
C30_Step ==
    (/\ client.fetch = "sent"
     /\ client'.fetch = "none"
     /\ res.route = "POST /api/entries"
     /\ res.status = 201) =>
        /\ ~client'.entryModal
        /\ client'.selectedDrink = NullDrink
        /\ client'.selectedSize = NullSize
        /\ client'.loaded = [stats |-> TRUE, entries |-> TRUE]
        /\ client'.toast.type # "error"
        /\ client'.toast = Toast("success", "added!",
                                 <<client.sent.sizeName.s, client.sent.drinkName.s>>)
C30_SuccessToastAfterAdding == [][C30_Step]_vars

====
